---------------------------- MODULE Spec2Model ----------------------------
(***************************************************************************)
(* Model of the shipment-tracking acquisition pipeline: the two credential *)
(* rotators, the carrier strategies with their retry loops and pages, the  *)
(* status mapping and the tracking route.                                  *)
(*                                                                         *)
(* Strings are sequences of one-character strings, so that split, trim,    *)
(* join, toUpperCase and includes are computed and not assumed.  A         *)
(* character outside ASCII is written as a named token ("a_grave").        *)
(***************************************************************************)
EXTENDS Integers, Sequences, FiniteSets, TLC

VARIABLES
    processEnv,     \* process.env: the raw configuration strings
    tokens,         \* BrowserlessTokenRotator.tokens
    tokenIndex,     \* BrowserlessTokenRotator.currentIndex
    keys,           \* GeminiApiKeyRotator.keys
    keyIndex,       \* GeminiApiKeyRotator.currentIndex
    ret,            \* the last rotator call: its name, the value it returned
                    \* and, for setIndex, its argument
    tokenLog,       \* values returned by the successive getNextToken calls
    tokenLogStart,  \* the cursor before the first call of tokenLog
    keyLog,         \* values returned by the successive getNextKey calls
    keyLogStart,    \* the cursor before the first call of keyLog
    acq,            \* the tracking request in flight: the route handler's and
                    \* the running strategy's locals, and the pages it opened
    pbs,            \* the static fields of PlaywrightBrowserSingleton
    browsers,       \* every browser launched so far
    contexts,       \* every browsing context created so far
    sessions,       \* the concurrent acquisitions: the locals of getContext
                    \* and of the strategy that called it, and its page
    overlapped,     \* whether two getContext calls were ever in flight at
                    \* the same time
    http            \* the HTTP request passing through the middleware of
                    \* the application, and what has handled it so far

rotVars == <<processEnv, tokens, tokenIndex, keys, keyIndex, ret,
             tokenLog, tokenLogStart, keyLog, keyLogStart>>

pbsVars == <<pbs, browsers, contexts, sessions, overlapped>>

vars == <<rotVars, acq, pbsVars, http>>

-----------------------------------------------------------------------------
(* Bounds of the model *)

\* total number of comma-separated pieces in the two configuration strings
MaxPieces == 3
\* successive next() calls recorded, over the two rotators
MaxCalls == 4

\* shipment items in the Aftership result list
MaxShipments == 2

\* browsers launched
MaxLaunches == 2
\* browsing contexts created
MaxNewContexts == 2
\* acquisitions the two concurrent callers start, in all
MaxRuns == 3
-----------------------------------------------------------------------------
(* Strings *)

\* the JavaScript value undefined (no string has a character "undefined")
Undefined == <<"undefined">>

RECURSIVE SplitFrom(_, _, _)
\* the pieces of s between separators, cur being the piece collected so far
SplitFrom(s, sep, cur) ==
    IF s = <<>> THEN <<cur>>
    ELSE IF Head(s) = sep THEN <<cur>> \o SplitFrom(Tail(s), sep, <<>>)
    ELSE SplitFrom(Tail(s), sep, Append(cur, Head(s)))

\* String.prototype.split(sep) with a one-character separator
Split(s, sep) == SplitFrom(s, sep, <<>>)

\* String.prototype.trim(): s from its first to its last character that is
\* not a space
Trim(s) ==
    LET kept == { i \in 1..Len(s) : s[i] # " " }
    IN  IF kept = {} THEN <<>>
        ELSE SubSeq(s, CHOOSE i \in kept : \A j \in kept : i <= j,
                       CHOOSE i \in kept : \A j \in kept : i >= j)

\* Array.prototype.map with trim
MapTrim(ps) == [i \in 1..Len(ps) |-> Trim(ps[i])]

\* the filter left out: every piece is kept
FilterNonEmptySkipped(ps) == ps

\* Array.prototype.filter(x => x.length > 0)
FilterNonEmpty(ps) == SelectSeq(ps, LAMBDA p : Len(p) > 0)

RECURSIVE JoinWith(_, _)
\* Array.prototype.join(sep)
JoinWith(ps, sep) ==
    IF ps = <<>> THEN <<>>
    ELSE IF Len(ps) = 1 THEN ps[1]
    ELSE ps[1] \o <<sep>> \o JoinWith(Tail(ps), sep)


\* String.prototype.includes(sub)
Includes(s, sub) ==
    \E i \in 0..(Len(s) - Len(sub)) : SubSeq(s, i + 1, i + Len(sub)) = sub

\* the letters that have an upper-case form
LowerChars ==
    <<"a", "b", "c", "d", "e", "f", "g", "h", "i", "j", "k", "l", "m",
      "n", "o", "p", "q", "r", "s", "t", "u", "v", "w", "x", "y", "z",
      "a_grave", "a_acute", "a_tilde", "o_circ", "d_stroke", "a_circ_dot",
      "e_circ_hook">>

\* their upper-case forms, in the same order
UpperChars ==
    <<"A", "B", "C", "D", "E", "F", "G", "H", "I", "J", "K", "L", "M",
      "N", "O", "P", "Q", "R", "S", "T", "U", "V", "W", "X", "Y", "Z",
      "A_GRAVE", "A_ACUTE", "A_TILDE", "O_CIRC", "D_STROKE", "A_CIRC_DOT",
      "E_CIRC_HOOK">>

\* the upper-case form of one character
ToUpperChar(c) ==
    IF \E i \in DOMAIN LowerChars : LowerChars[i] = c
    THEN UpperChars[CHOOSE i \in DOMAIN LowerChars : LowerChars[i] = c]
    ELSE c

\* toUpperCase() left out: the string as it is
ToUpperCaseSkipped(s) == s

\* String.prototype.toUpperCase()
ToUpperCase(s) == [i \in 1..Len(s) |-> ToUpperChar(s[i])]

\* the canonical statuses
DELIVERED == <<"D", "E", "L", "I", "V", "E", "R", "E", "D">>
UNKNOWN == <<"U", "N", "K", "N", "O", "W", "N">>
-----------------------------------------------------------------------------
(* Configuration *)

\* the raw pieces a configuration string is assembled from
RawPieces == { <<>>, <<"a">>, <<" ", "b", " ">>, <<"c">> }

RECURSIVE PieceSeqs(_)
\* the sequences of exactly n raw pieces
PieceSeqs(n) ==
    IF n = 0 THEN { <<>> }
    ELSE { Append(ps, p) : ps \in PieceSeqs(n - 1), p \in RawPieces }

\* the configuration strings of exactly n pieces; none is the unset variable
RawConfigs(n) ==
    IF n = 0 THEN { Undefined }
    ELSE { JoinWith(ps, ",") : ps \in PieceSeqs(n) }

\* process.env.X || undefined
OrUndefined(raw) == IF raw = Undefined \/ raw = <<>> THEN Undefined ELSE raw

\* getEnv(): the part of the configuration the rotators, the captcha
\* solver and the API-key middleware read
getEnv(penv) ==
    [ browserlessApiToken |-> OrUndefined(penv.BROWSERLESS_API_TOKEN),
      geminiApiKey        |-> OrUndefined(penv.GEMINI_API_KEY),
      captchaSolverApiKey |-> OrUndefined(penv.CAPTCHA_SOLVER_API_KEY),
      xApiKey             |-> OrUndefined(penv.X_API_KEY) ]

env == getEnv(processEnv)

-----------------------------------------------------------------------------
(* BrowserlessTokenRotator *)

\* mutant of initializeTokens: no check for an unset variable
initializeTokensUnguarded(e) ==
    FilterNonEmpty(MapTrim(Split(e.browserlessApiToken, ",")))

\* initializeTokens(): the pool parsed from env.browserlessApiToken
initializeTokens(e) ==
    IF e.browserlessApiToken = Undefined THEN <<>>
    ELSE FilterNonEmpty(MapTrim(Split(e.browserlessApiToken, ",")))

\* mutant of NextTokenIndex: wraps to the first token one step too early
NextTokenIndexWrapsEarly(idx, n) == IF idx + 1 >= n - 1 THEN 0 ELSE idx + 1

\* the cursor left where it is
NextTokenIndexStays(idx, n) == idx

\* the cursor after getNextToken on a non-empty pool
NextTokenIndex(idx, n) == (idx + 1) % n

\* getNextToken()
getNextToken ==
    /\ Len(tokenLog) + Len(keyLog) < MaxCalls
    /\ IF Len(tokens) = 0
       THEN /\ ret' = [op |-> "getNextToken", val |-> Undefined]
            /\ UNCHANGED tokenIndex
       ELSE /\ ret' = [op |-> "getNextToken", val |-> tokens[tokenIndex + 1]]
            /\ tokenIndex' = NextTokenIndex(tokenIndex, Len(tokens))
    /\ tokenLog' = Append(tokenLog, ret'.val)
    /\ UNCHANGED <<processEnv, tokens, keys, keyIndex, tokenLogStart, keyLog, keyLogStart>>

\* getCurrentToken() that moves the cursor as getNextToken does
getCurrentTokenAdvancing ==
    /\ ret' = [op |-> "getCurrentToken",
               val |-> IF Len(tokens) = 0 THEN Undefined ELSE tokens[tokenIndex + 1]]
    /\ tokenIndex' = IF Len(tokens) = 0 THEN tokenIndex
                     ELSE NextTokenIndex(tokenIndex, Len(tokens))
    /\ UNCHANGED <<processEnv, tokens, keys, keyIndex,
                   tokenLog, tokenLogStart, keyLog, keyLogStart>>

\* getCurrentToken()
getCurrentToken ==
    /\ ret' = [op |-> "getCurrentToken",
               val |-> IF Len(tokens) = 0 THEN Undefined ELSE tokens[tokenIndex + 1]]
    /\ UNCHANGED <<processEnv, tokens, tokenIndex, keys, keyIndex,
                   tokenLog, tokenLogStart, keyLog, keyLogStart>>

\* getTokenCount()
getTokenCount ==
    /\ ret' = [op |-> "getTokenCount", val |-> Len(tokens)]
    /\ UNCHANGED <<processEnv, tokens, tokenIndex, keys, keyIndex,
                   tokenLog, tokenLogStart, keyLog, keyLogStart>>

\* hasTokens()
hasTokens ==
    /\ ret' = [op |-> "hasTokens", val |-> Len(tokens) > 0]
    /\ UNCHANGED <<processEnv, tokens, tokenIndex, keys, keyIndex,
                   tokenLog, tokenLogStart, keyLog, keyLogStart>>

\* getAllTokens()
getAllTokens ==
    /\ ret' = [op |-> "getAllTokens", val |-> tokens]
    /\ UNCHANGED <<processEnv, tokens, tokenIndex, keys, keyIndex,
                   tokenLog, tokenLogStart, keyLog, keyLogStart>>

\* reset() of the token rotator
resetTokens ==
    /\ tokenIndex' = 0
    /\ ret' = [op |-> "resetTokens", val |-> Undefined]
    /\ tokenLog' = <<>>
    /\ tokenLogStart' = 0
    /\ UNCHANGED <<processEnv, tokens, keys, keyIndex, keyLog, keyLogStart>>

\* setIndex(index) without its range test
SetTokenIndexUnchecked(idx, index, n) == index

\* the cursor after setIndex(index)
SetTokenIndex(idx, index, n) == IF index >= 0 /\ index < n THEN index ELSE idx

\* setIndex(index) of the token rotator
setTokenIndex ==
    \E index \in (-1)..(Len(tokens) + 1) :
        /\ tokenIndex' = SetTokenIndex(tokenIndex, index, Len(tokens))
        /\ ret' = [op |-> "setTokenIndex", val |-> Undefined, arg |-> index]
        /\ tokenLog' = <<>>
        /\ tokenLogStart' = tokenIndex'
        /\ UNCHANGED <<processEnv, tokens, keys, keyIndex, keyLog, keyLogStart>>

-----------------------------------------------------------------------------
(* GeminiApiKeyRotator *)

\* initializeKeys(): the pool parsed from env.geminiApiKey
initializeKeys(e) ==
    IF e.geminiApiKey = Undefined THEN <<>>
    ELSE FilterNonEmpty(MapTrim(Split(e.geminiApiKey, ",")))

\* a cursor that next() leaves where it is
NextKeyIndexStays(idx, n) == idx

\* the cursor after getNextKey on a non-empty pool
NextKeyIndex(idx, n) == (idx + 1) % n

\* getNextKey()
getNextKey ==
    /\ Len(tokenLog) + Len(keyLog) < MaxCalls
    /\ IF Len(keys) = 0
       THEN /\ ret' = [op |-> "getNextKey", val |-> Undefined]
            /\ UNCHANGED keyIndex
       ELSE /\ ret' = [op |-> "getNextKey", val |-> keys[keyIndex + 1]]
            /\ keyIndex' = NextKeyIndex(keyIndex, Len(keys))
    /\ keyLog' = Append(keyLog, ret'.val)
    /\ UNCHANGED <<processEnv, tokens, tokenIndex, keys, tokenLog, tokenLogStart, keyLogStart>>

\* getCurrentKey()
getCurrentKey ==
    /\ ret' = [op |-> "getCurrentKey",
               val |-> IF Len(keys) = 0 THEN Undefined ELSE keys[keyIndex + 1]]
    /\ UNCHANGED <<processEnv, tokens, tokenIndex, keys, keyIndex,
                   tokenLog, tokenLogStart, keyLog, keyLogStart>>

\* getKeyCount()
getKeyCount ==
    /\ ret' = [op |-> "getKeyCount", val |-> Len(keys)]
    /\ UNCHANGED <<processEnv, tokens, tokenIndex, keys, keyIndex,
                   tokenLog, tokenLogStart, keyLog, keyLogStart>>

\* hasKeys()
hasKeys ==
    /\ ret' = [op |-> "hasKeys", val |-> Len(keys) > 0]
    /\ UNCHANGED <<processEnv, tokens, tokenIndex, keys, keyIndex,
                   tokenLog, tokenLogStart, keyLog, keyLogStart>>

\* getAllKeys()
getAllKeys ==
    /\ ret' = [op |-> "getAllKeys", val |-> keys]
    /\ UNCHANGED <<processEnv, tokens, tokenIndex, keys, keyIndex,
                   tokenLog, tokenLogStart, keyLog, keyLogStart>>

\* reset() of the key rotator
resetKeys ==
    /\ keyIndex' = 0
    /\ ret' = [op |-> "resetKeys", val |-> Undefined]
    /\ keyLog' = <<>>
    /\ keyLogStart' = 0
    /\ UNCHANGED <<processEnv, tokens, tokenIndex, keys, tokenLog, tokenLogStart>>

\* mutant of SetKeyIndex: the upper limit of the index is not checked
SetKeyIndexNoUpperLimit(idx, index, n) == IF index >= 0 THEN index ELSE idx

\* the cursor after setIndex(index)
SetKeyIndex(idx, index, n) == IF index >= 0 /\ index < n THEN index ELSE idx

\* setIndex(index) of the key rotator
setKeyIndex ==
    \E index \in (-1)..(Len(keys) + 1) :
        /\ keyIndex' = SetKeyIndex(keyIndex, index, Len(keys))
        /\ ret' = [op |-> "setKeyIndex", val |-> Undefined, arg |-> index]
        /\ keyLog' = <<>>
        /\ keyLogStart' = keyIndex'
        /\ UNCHANGED <<processEnv, tokens, tokenIndex, keys, tokenLog, tokenLogStart>>

-----------------------------------------------------------------------------
(* Carrier classification (helpers/index.ts) *)

isUSPS(providerStr) == Includes(ToUpperCase(providerStr), <<"U", "S", "P", "S">>)

isSPX(providerStr) ==
    \/ Includes(ToUpperCase(providerStr), <<"S", "P", "X">>)
    \/ Includes(ToUpperCase(providerStr), <<"S", "P", "X", " ", "I", "N", "T", "E", "R", "N", "A", "T", "I", "O", "N", "A", "L">>)

isGiaoHangNhanh(providerStr) ==
    \/ Includes(ToUpperCase(providerStr), <<"G", "I", "A", "O", " ", "H", "A_GRAVE", "N", "G", " ", "N", "H", "A", "N", "H">>)
    \/ Includes(ToUpperCase(providerStr), <<"G", "H", "N">>)

isJTExpress(providerStr) ==
    \/ Includes(ToUpperCase(providerStr), <<"J", "&", "T">>)
    \/ Includes(ToUpperCase(providerStr), <<"J", "T", " ", "E", "X", "P", "R", "E", "S", "S">>)

isBestExpress(providerStr) == Includes(ToUpperCase(providerStr), <<"B", "E", "S", "T", " ", "E", "X", "P", "R", "E", "S", "S">>)

isViettelPost(providerStr) ==
    LET upperStr == ToUpperCase(providerStr)
    IN  Includes(upperStr, <<"V", "I", "E", "T", "T", "E", "L", " ", "P", "O", "S", "T">>) \/ Includes(upperStr, <<"V", "T", "P">>)

isVnPost(providerStr) ==
    LET upperStr == ToUpperCase(providerStr)
    IN  Includes(upperStr, <<"V", "N", " ", "P", "O", "S", "T">>) \/ Includes(upperStr, <<"V", "I", "E", "T", "N", "A", "M", " ", "P", "O", "S", "T">>)

isYunExpress(providerStr) ==
    LET upperStr == ToUpperCase(providerStr)
    IN  Includes(upperStr, <<"Y", "U", "N">>)

-----------------------------------------------------------------------------
(* The request in flight *)

\* an error object: its message and the retry attempt that created it
\* (0: created outside a retry loop)
Err(m, k) == [msg |-> m, attempt |-> k]

\* no error
NoError == Err("none", 0)

\* the local variable page before a page is assigned to it
NoPage == 0

\* what page.screenshot() and Buffer.from() yield
ImageBytes == <<"image-bytes">>

\* no result object
NoResult == [status |-> Undefined, buffer |-> Undefined]

\* no document read yet
NoDom == [kind |-> "none"]

\* no tracking URL: none was built, or getTrackingURL threw
NoUrl == [base |-> "none"]

\* nothing in flight: the state between two requests
IdleAcq ==
    [ pc         |-> "idle",
      provider   |-> Undefined,    \* req.body.provider
      codes      |-> Undefined,    \* req.body.codes
      branch     |-> "none",       \* the branch of the dispatch that ran
      strategy   |-> "none",       \* the strategy function the route called
      attempt    |-> 0,            \* the loop variable of the retry loop
      lastError  |-> NoError,      \* the retry loop's lastError
      error      |-> NoError,      \* the exception being handled
      page       |-> NoPage,       \* the local variable page
      pages      |-> <<>>,         \* every page opened for this request
      sleeps     |-> <<>>,         \* the backoff delays slept, in order
      attemptLog |-> <<>>,         \* how each finished attempt ended
      navigations |-> <<>>,        \* the page.goto calls of the current
                                   \* attempt: the attempt, the waitUntil
                                   \* option and whether the call succeeded
      steps      |-> <<>>,         \* the steps the current attempt completed
      captcha    |-> "none",       \* what the captcha solving of the current
                                   \* attempt came to: absent (no captcha
                                   \* element), solved, error, threw
      submitted  |-> FALSE,        \* whether the current attempt filled the
                                   \* search form and clicked search
      captchaToken |-> 0,          \* the local captchaToken of getTrackingData:
                                   \* the attempt whose solve returned it, 0
                                   \* while there is none
      url        |-> NoUrl,        \* the tracking URL built for the request
      extractor  |-> "none",       \* the branch of getTrackingStatus the
                                   \* current attempt ran
      dom        |-> NoDom,        \* the document or API response read
      credentials |-> {},          \* the credentials the captcha services
                                   \* were called with, and where each came from
      status     |-> Undefined,    \* the local variable status
      buffer     |-> Undefined,    \* the local variable holding the image
      result     |-> NoResult,     \* what the strategy returned
      thrown     |-> NoError,      \* what the strategy threw
      responses  |-> <<>> ]        \* the responses sent through res

\* browserContext.newPage() in attempt k: the pages with the new one added
NewPage(pages, k) == Append(pages, [open |-> TRUE, openedIn |-> k, usedIn |-> {}])

\* the pages after attempt k worked on page p
UsePage(pages, p, k) == [pages EXCEPT ![p].usedIn = @ \cup {k}]

\* page.close(): the pages with p closed
PageClose(pages, p) == [pages EXCEPT ![p].open = FALSE]

\* what PlaywrightBrowserSingleton.getContext() can give a strategy: a
\* context, null, or an exception of the launch
ContextOutcomes == {"context", "null", "throws"}

\* the error of a strategy that got no context
ContextError(outcome) ==
    IF outcome = "null" THEN Err("Failed to get browser context", 0)
    ELSE Err("browser launch failed", 0)

\* page.goto(url, {waitUntil}) in attempt k: the calls with this one added
Goto(navigations, k, waitUntil, ok) ==
    Append(navigations, [attempt |-> k, waitUntil |-> waitUntil, ok |-> ok])

\* the throw that follows a check without data: the step is recorded and
\* control goes to the catch clause of the retry loop
ThrowNoData(catchClause, msg) ==
    acq' = [acq EXCEPT !.pc = catchClause, !.error = Err(msg, acq.attempt),
                       !.steps = Append(@, "no data")]

\* an exception thrown in the try block of the current attempt: control
\* goes to the catch clause of the retry loop
Throw(catchClause, msg) ==
    acq' = [acq EXCEPT !.pc = catchClause, !.error = Err(msg, acq.attempt)]
-----------------------------------------------------------------------------
(* The generic screenshoter: SPX, Giao Hang Nhanh, YunExpress
   (helpers/screenshoter.ts) *)

\* const maxRetries = 3 in screenshoter
ssMaxRetries == 3

\* the base of the backoff delay in screenshoter, in ms
ssBaseDelay == 2000

\* the documents a tracking page can show after the settle wait; text is
\* the text of the status element
GenericDoms ==
    [ kind : {"generic"}, spxHasData : BOOLEAN, ghnHasData : BOOLEAN,
      yunTableHeader : BOOLEAN, yunNoData : BOOLEAN,
      text : { <<>>,
               <<"D", "e", "l", "i", "v", "e", "r", "e", "d">>,
               <<"d", "e", "l", "i", "v", "e", "r", "e", "d">>,
               <<"I", "n", " ", "t", "r", "a", "n", "s", "i", "t">>,
               <<"D_STROKE", "a_tilde", " ", "g", "i", "a", "o", " ", "h", "a_grave", "n", "g">> } ]

\* checkTrackingData(page)
ssCheckTrackingData(dom) ==
    LET yunHasData == dom.yunTableHeader /\ ~dom.yunNoData
    IN  dom.spxHasData \/ dom.ghnHasData \/ yunHasData

\* the delivery test of the SPX and Giao Hang Nhanh extractors
ssIsDeliveredText(statusText) ==
    \/ Includes(statusText, <<"G", "i", "a", "o", " ", "h", "a_grave", "n", "g", " ", "t", "h", "a_grave", "n", "h", " ", "c", "o_circ", "n", "g">>)
    \/ Includes(statusText, <<"D_STROKE", "a_tilde", " ", "g", "i", "a", "o", " ", "h", "a_grave", "n", "g">>)
    \/ Includes(statusText, <<"D", "e", "l", "i", "v", "e", "r", "e", "d">>)

\* the delivery test of the YunExpress extractor
ssIsDeliveredTextYun(statusText) ==
    \/ Includes(statusText, <<"D", "e", "l", "i", "v", "e", "r", "e", "d", " ", "s", "u", "c", "c", "e", "s", "s", "f", "u", "l", "l", "y">>)
    \/ Includes(statusText, <<"G", "i", "a", "o", " ", "h", "a_grave", "n", "g", " ", "t", "h", "a_grave", "n", "h", " ", "c", "o_circ", "n", "g">>)
    \/ Includes(statusText, <<"D_STROKE", "a_tilde", " ", "g", "i", "a", "o", " ", "h", "a_grave", "n", "g">>)
    \/ Includes(statusText, <<"D", "e", "l", "i", "v", "e", "r", "e", "d">>)

\* the chain of getTrackingStatus with the GiaoHangNhanh test in front
ssExtractorGhnFirst(provider) ==
    IF isGiaoHangNhanh(provider) THEN "GiaoHangNhanh"
    ELSE IF isSPX(provider) THEN "SPX"
    ELSE IF isYunExpress(provider) THEN "YunExpress"
    ELSE "fall-through"

\* the if / else if chain of getTrackingStatus: the carrier whose
\* extractor runs, or the fall-through to return 'UNKNOWN'
ssExtractor(provider) ==
    IF isSPX(provider) THEN "SPX"
    ELSE IF isGiaoHangNhanh(provider) THEN "GiaoHangNhanh"
    ELSE IF isYunExpress(provider) THEN "YunExpress"
    ELSE "fall-through"

\* getTrackingStatus(page, provider), statusText being the text of the
\* element the provider's extractor selects
ssGetTrackingStatus(statusText, provider) ==
    LET extractor == ssExtractor(provider)
    IN  IF extractor \in {"SPX", "GiaoHangNhanh"}
        THEN IF ssIsDeliveredText(statusText) THEN DELIVERED ELSE UNKNOWN
        ELSE IF extractor = "YunExpress"
        THEN IF ssIsDeliveredTextYun(statusText) THEN DELIVERED ELSE UNKNOWN
        ELSE UNKNOWN

\* mutant of closePage: the page is left open
closePageSkipped(pages, p) == pages

\* closePage(page)
closePage(pages, p) ==
    IF p # NoPage /\ pages[p].open THEN PageClose(pages, p) ELSE pages

\* mutant of ssDelay: the same delay after every failed attempt
ssDelayFlat(attempt) == ssBaseDelay

\* the delay slept after failed attempt number attempt
ssDelay(attempt) == attempt * ssBaseDelay

\* mutant of ssRetryFollows: a sleep after every failed attempt
ssRetryFollowsAlways(attempt) == TRUE

\* if (attempt < maxRetries) in the catch clause: a retry follows
ssRetryFollows(attempt) == attempt < ssMaxRetries

\* const browserContext = await PlaywrightBrowserSingleton.getContext()
ss_getContext ==
    /\ acq.pc = "ss_getContext"
    /\ \E outcome \in ContextOutcomes :
          IF outcome = "context"
          THEN acq' = [acq EXCEPT !.pc = "ss_newPage", !.attempt = 1]
          ELSE acq' = [acq EXCEPT !.pc = "route_catch",
                                  !.thrown = ContextError(outcome)]
    /\ UNCHANGED rotVars

\* page = await browserContext.newPage(); page.setDefaultTimeout(90000)
ss_newPage ==
    /\ acq.pc = "ss_newPage"
    /\ \/ acq' = [acq EXCEPT !.pc = "ss_goto",
                             !.page = Len(acq.pages) + 1,
                             !.pages = NewPage(acq.pages, acq.attempt)]
       \/ Throw("ss_catch", "newPage failed")
    /\ UNCHANGED rotVars

\* navigateToPage: page.goto(url, {waitUntil: 'domcontentloaded'})
ss_goto ==
    /\ acq.pc = "ss_goto"
    /\ \E ok \in BOOLEAN :
          acq' = [acq EXCEPT !.pc = IF ok THEN "ss_settle" ELSE "ss_gotoLoad",
                             !.steps = Append(@, "navigate"),
                             !.navigations = Goto(@, acq.attempt, "domcontentloaded", ok),
                             !.pages = UsePage(acq.pages, acq.page, acq.attempt)]
    /\ UNCHANGED rotVars

\* navigateToPage: the retry page.goto(url, {waitUntil: 'load'})
ss_gotoLoad ==
    /\ acq.pc = "ss_gotoLoad"
    /\ \/ acq' = [acq EXCEPT !.pc = "ss_settle",
                             !.steps = Append(@, "navigate"),
                             !.navigations = Goto(@, acq.attempt, "load", TRUE)]
       \/ acq' = [acq EXCEPT !.pc = "ss_catch",
                             !.error = Err("navigation failed", acq.attempt),
                             !.steps = Append(@, "navigate"),
                             !.navigations = Goto(@, acq.attempt, "load", FALSE)]
    /\ UNCHANGED rotVars

\* the 15 s wait for the content, after which the page shows some document
ss_settle ==
    /\ acq.pc = "ss_settle"
    /\ \E dom \in GenericDoms :
          acq' = [acq EXCEPT !.pc = "ss_check", !.dom = dom,
                                !.steps = Append(@, "settle")]
    /\ UNCHANGED rotVars

\* the attempt with the data check left out
ss_checkSkipped ==
    /\ acq.pc = "ss_check"
    /\ acq' = [acq EXCEPT !.pc = "ss_status"]
    /\ UNCHANGED rotVars

\* const hasTrackingData = await checkTrackingData(page), and the throw
\* when there is none
ss_check ==
    /\ acq.pc = "ss_check"
    /\ \/ /\ ssCheckTrackingData(acq.dom)
          /\ acq' = [acq EXCEPT !.pc = "ss_status",
                                   !.steps = Append(@, "data")]
       \/ /\ ~ssCheckTrackingData(acq.dom)
          /\ ThrowNoData("ss_catch", IF acq.attempt < ssMaxRetries
                     THEN "No tracking data found, will retry"
                     ELSE "No tracking data found after all retries")
       \/ Throw("ss_catch", "evaluate failed")
    /\ UNCHANGED rotVars

\* const status = await getTrackingStatus(page, provider)
ss_status ==
    /\ acq.pc = "ss_status"
    /\ \/ acq' = [acq EXCEPT !.pc = "ss_takePage",
                             !.steps = Append(@, "status"),
                             !.extractor = ssExtractor(acq.provider),
                             !.status = ssGetTrackingStatus(acq.dom.text, acq.provider)]
       \/ Throw("ss_catch", "evaluate failed")
    /\ UNCHANGED rotVars

\* const buffer = await takePage(page)
ss_takePage ==
    /\ acq.pc = "ss_takePage"
    /\ \/ acq' = [acq EXCEPT !.pc = "ss_return", !.buffer = ImageBytes,
                             !.steps = Append(@, "screenshot")]
       \/ Throw("ss_catch", "screenshot failed")
    /\ UNCHANGED rotVars

\* await closePage(page); return { status, buffer }
ss_return ==
    /\ acq.pc = "ss_return"
    /\ acq' = [acq EXCEPT !.pc = "route_send",
                          !.pages = closePage(acq.pages, acq.page),
                          !.attemptLog = Append(@, "ok"),
                          !.result = [status |-> acq.status, buffer |-> acq.buffer]]
    /\ UNCHANGED rotVars

\* catch (error): lastError = error, closePage(page) and the backoff sleep;
\* then attempt++ and the loop test: the next attempt with a fresh page
\* variable, or throw lastError after the loop
ss_catch ==
    /\ acq.pc = "ss_catch"
    /\ LET caught == [acq EXCEPT !.lastError = acq.error,
                                 !.error = NoError,
                                 !.pages = closePage(acq.pages, acq.page),
                                 !.attemptLog = Append(@, "fail"),
                                 !.sleeps = IF ssRetryFollows(acq.attempt)
                                            THEN Append(@, ssDelay(acq.attempt))
                                            ELSE @,
                                 !.attempt = @ + 1]
       IN  IF caught.attempt <= ssMaxRetries
           THEN acq' = [caught EXCEPT !.pc = "ss_newPage", !.page = NoPage,
                                      !.dom = NoDom, !.steps = <<>>, !.navigations = <<>>, !.extractor = "none",
                                      !.captcha = "none", !.status = Undefined,
                                      !.buffer = Undefined]
           ELSE acq' = [caught EXCEPT !.pc = "route_catch",
                                      !.thrown = caught.lastError]
    /\ UNCHANGED rotVars
-----------------------------------------------------------------------------
(* VN Post (vnPostScreenshoter) *)

\* const maxRetries = 3 in vnPostScreenshoter
vnMaxRetries == 3

\* the base of the backoff delay in handleRetryError, in ms
vnBaseDelay == 2000

\* the documents the VN Post page can show after the search; text is the
\* text of the journey block
VnDoms ==
    [ kind : {"vnpost"}, captchaError : BOOLEAN, errorElement : BOOLEAN,
      text : { <<"D_STROKE", "a_tilde", " ", "p", "h", "a_acute", "t", " ", "t", "h", "a_grave", "n", "h", " ", "c", "o_circ", "n", "g">>,
               <<"I", "n", " ", "t", "r", "a", "n", "s", "i", "t">> } ]

\* checkTrackingDataPresent(page)
checkTrackingDataPresent(dom) ==
    IF dom.captchaError THEN FALSE
    ELSE IF dom.errorElement THEN FALSE
    ELSE TRUE

\* getTrackingStatus(page) of VN Post
vnGetTrackingStatus(text) ==
    IF Includes(text, <<"D_STROKE", "a_tilde", " ", "p", "h", "a_acute", "t", " ", "t", "h", "a_grave", "n", "h", " ", "c", "o_circ", "n", "g">>) THEN DELIVERED ELSE UNKNOWN

\* the delay handleRetryError sleeps after failed attempt number attempt
vnDelay(attempt) == attempt * vnBaseDelay

\* const browserContext = await PlaywrightBrowserSingleton.getContext()
vn_getContext ==
    /\ acq.pc = "vn_getContext"
    /\ \E outcome \in ContextOutcomes :
          IF outcome = "context"
          THEN acq' = [acq EXCEPT !.pc = "vn_setupPage", !.attempt = 1]
          ELSE acq' = [acq EXCEPT !.pc = "route_catch",
                                  !.thrown = ContextError(outcome)]
    /\ UNCHANGED rotVars

\* page = await setupPage(browserContext)
vn_setupPage ==
    /\ acq.pc = "vn_setupPage"
    /\ \/ acq' = [acq EXCEPT !.pc = "vn_goto",
                             !.page = Len(acq.pages) + 1,
                             !.pages = NewPage(acq.pages, acq.attempt)]
       \/ Throw("vn_catch", "newPage failed")
    /\ UNCHANGED rotVars

\* navigateToPage: page.goto(url, {waitUntil: 'domcontentloaded'})
vn_goto ==
    /\ acq.pc = "vn_goto"
    /\ \E ok \in BOOLEAN :
          acq' = [acq EXCEPT !.pc = IF ok THEN "vn_captcha" ELSE "vn_gotoLoad",
                             !.steps = Append(@, "navigate"),
                             !.navigations = Goto(@, acq.attempt, "domcontentloaded", ok),
                             !.pages = UsePage(acq.pages, acq.page, acq.attempt)]
    /\ UNCHANGED rotVars

\* navigateToPage: the retry page.goto(url, {waitUntil: 'load'})
vn_gotoLoad ==
    /\ acq.pc = "vn_gotoLoad"
    /\ \/ acq' = [acq EXCEPT !.pc = "vn_captcha",
                             !.steps = Append(@, "navigate"),
                             !.navigations = Goto(@, acq.attempt, "load", TRUE)]
       \/ acq' = [acq EXCEPT !.pc = "vn_catch",
                             !.error = Err("navigation failed", acq.attempt),
                             !.steps = Append(@, "navigate"),
                             !.navigations = Goto(@, acq.attempt, "load", FALSE)]
    /\ UNCHANGED rotVars

\* solveCaptchaAndSearch throwing when there is no captcha element
vn_captchaAbsentThrows ==
    /\ acq.pc = "vn_captcha"
    /\ \/ acq' = [acq EXCEPT !.pc = "vn_catch", !.captcha = "absent",
                             !.error = Err("Captcha element not found", acq.attempt)]
       \/ acq' = [acq EXCEPT !.pc = "vn_readCaptcha"]
    /\ UNCHANGED rotVars

\* solveCaptchaAndSearch up to readCaptchaWithGemini: without a captcha
\* element the 10 s wait and return; with one, captchaElement.screenshot()
\* and saveCaptchaImage
vn_captcha ==
    /\ acq.pc = "vn_captcha"
    /\ \/ \E dom \in VnDoms :
             acq' = [acq EXCEPT !.pc = "vn_check", !.dom = dom,
                                !.captcha = "absent",
                                !.steps = Append(@, "settle")]
       \/ acq' = [acq EXCEPT !.pc = "vn_readCaptcha"]
       \/ Throw("vn_catch", "locator failed")
       \/ Throw("vn_catch", "captcha screenshot failed")
    /\ UNCHANGED rotVars

\* readCaptchaWithGemini: the key from getNextGeminiApiKey(), then the
\* Gemini call
vn_readCaptcha ==
    /\ acq.pc = "vn_readCaptcha"
    /\ getNextKey
    /\ IF ret'.val = Undefined
       THEN Throw("vn_catch", "No Gemini API key available")
       ELSE LET called == [acq EXCEPT !.credentials = @ \cup
                              { [service |-> "Gemini", from |-> "getNextGeminiApiKey",
                                 key |-> ret'.val] }]
            IN  \/ acq' = [called EXCEPT !.pc = "vn_search", !.captcha = "solved"]
                \/ acq' = [called EXCEPT !.pc = "vn_catch", !.captcha = "threw",
                                         !.error = Err("Gemini call failed", acq.attempt)]

\* filling the captcha and the tracking code, the click on search and the
\* 10 s wait for the results
vn_search ==
    /\ acq.pc = "vn_search"
    /\ \/ \E dom \in VnDoms :
             acq' = [acq EXCEPT !.pc = "vn_check", !.dom = dom,
                                !.submitted = TRUE,
                                !.steps = Append(@, "settle")]
       \/ Throw("vn_catch", "form field not visible")
    /\ UNCHANGED rotVars

\* const hasTrackingData = await checkTrackingDataPresent(page), and the
\* throw when there is none
vn_check ==
    /\ acq.pc = "vn_check"
    /\ \/ /\ checkTrackingDataPresent(acq.dom)
          /\ acq' = [acq EXCEPT !.pc = "vn_status",
                                   !.steps = Append(@, "data")]
       \/ /\ ~checkTrackingDataPresent(acq.dom)
          /\ ThrowNoData("vn_catch", IF acq.attempt < vnMaxRetries
                     THEN "No tracking data found, will retry"
                     ELSE "No tracking data found after all retries")
       \/ Throw("vn_catch", "evaluate failed")
    /\ UNCHANGED rotVars

\* const status = await getTrackingStatus(page)
vn_status ==
    /\ acq.pc = "vn_status"
    /\ \/ acq' = [acq EXCEPT !.pc = "vn_takeScreenshot",
                             !.steps = Append(@, "status"),
                             !.status = vnGetTrackingStatus(acq.dom.text)]
       \/ Throw("vn_catch", "evaluate failed")
    /\ UNCHANGED rotVars

\* const screenshotBuffer = await takeScreenshot(page)
vn_takeScreenshot ==
    /\ acq.pc = "vn_takeScreenshot"
    /\ \/ acq' = [acq EXCEPT !.pc = "vn_return", !.buffer = ImageBytes,
                             !.steps = Append(@, "screenshot")]
       \/ Throw("vn_catch", "screenshot failed")
    /\ UNCHANGED rotVars

\* the page.close() after attemptScreenshot returned; return result
vn_return ==
    /\ acq.pc = "vn_return"
    /\ acq' = [acq EXCEPT !.pc = "route_send",
                          !.pages = closePage(acq.pages, acq.page),
                          !.attemptLog = Append(@, "ok"),
                          !.result = [status |-> acq.status, buffer |-> acq.buffer]]
    /\ UNCHANGED rotVars

\* catch (error): lastError = error; handleRetryError closes the page and
\* sleeps the backoff; page = undefined; then attempt++ and the loop test:
\* the next attempt, or throw lastError after the loop
vn_catch ==
    /\ acq.pc = "vn_catch"
    /\ LET caught == [acq EXCEPT !.lastError = acq.error,
                                 !.error = NoError,
                                 !.pages = closePage(acq.pages, acq.page),
                                 !.page = NoPage,
                                 !.attemptLog = Append(@, "fail"),
                                 !.sleeps = IF acq.attempt < vnMaxRetries
                                            THEN Append(@, vnDelay(acq.attempt))
                                            ELSE @,
                                 !.attempt = @ + 1]
       IN  IF caught.attempt <= vnMaxRetries
           THEN acq' = [caught EXCEPT !.pc = "vn_setupPage", !.dom = NoDom, !.steps = <<>>, !.navigations = <<>>,
                                      !.captcha = "none", !.submitted = FALSE,
                                      !.status = Undefined,
                                      !.buffer = Undefined]
           ELSE acq' = [caught EXCEPT !.pc = "route_catch",
                                      !.thrown = caught.lastError]
    /\ UNCHANGED rotVars
-----------------------------------------------------------------------------
(* Aftership: J&T Express and USPS (helpers/aftershipSreenshouter.ts) *)

\* const maxRetries = 3 in aftershipScreenshouter
afMaxRetries == 3

\* the base of the backoff delay in retryScreenshotCapture, in ms
afBaseDelay == 3000

\* a .multiShipmentResultItem element: the text of its tracking span
\* (Undefined: no span) and its inner HTML
ShipmentElements ==
    [ trackingNumber : { <<"T", "1">>, <<"T", "2">> } \cup {Undefined},
      html : { <<"D", "e", "l", "i", "v", "e", "r", "e", "d", " ", "o", "n">>,
               <<"I", "n", " ", "t", "r", "a", "n", "s", "i", "t">>,
               <<"C", "h", "e", "c", "k", "i", "n", "g", " ", "f", "o", "r", " ", "u", "p", "d", "a", "t", "e", "s">> } ]

RECURSIVE ElementLists(_)
\* the lists of exactly n shipment elements
ElementLists(n) ==
    IF n = 0 THEN { <<>> }
    ELSE { Append(es, e) : es \in ElementLists(n - 1), e \in ShipmentElements }

\* the documents the Aftership page can show: #tracking with or without a
\* shadow root, and the shipment items inside it
AftershipDoms ==
    { [kind |-> "aftership", shadowRoot |-> FALSE, elements |-> <<>>] } \cup
    { [kind |-> "aftership", shadowRoot |-> TRUE, elements |-> es] :
        es \in UNION { ElementLists(n) : n \in 0..MaxShipments } }

\* /Checking for updates/i.test(html): the letter case is ignored
IsLoading(html) ==
    Includes(ToUpperCase(html), <<"C", "H", "E", "C", "K", "I", "N", "G", " ", "F", "O", "R", " ", "U", "P", "D", "A", "T", "E", "S">>)

\* /Delivered\s+on/i.test(html): the letter case is ignored
IsDeliveredOn(html) ==
    LET h == ToUpperCase(html)
    IN  \E i \in 1..(Len(h) - 8), j \in 1..(Len(h) - 1) :
           /\ SubSeq(h, i, i + 8) = <<"D", "E", "L", "I", "V", "E", "R", "E", "D">>
           /\ j > i + 9
           /\ \A m \in (i + 9)..(j - 1) : h[m] = " "
           /\ SubSeq(h, j, j + 1) = <<"O", "N">>

\* the elements that have a tracking number
WithTrackingNumber(elements) ==
    SelectSeq(elements, LAMBDA e : e.trackingNumber # Undefined)

\* checkTrackingData(page) of Aftership
afCheckTrackingData(dom) ==
    IF ~dom.shadowRoot THEN FALSE
    ELSE IF Len(WithTrackingNumber(dom.elements)) = 0 THEN FALSE
    ELSE IF \E i \in 1..Len(dom.elements) : IsLoading(dom.elements[i].html) THEN FALSE
    ELSE TRUE

\* getAllShipments: the results collected inside page.evaluate
ShipmentResults(dom) ==
    IF ~dom.shadowRoot THEN <<>>
    ELSE LET es == WithTrackingNumber(dom.elements)
         IN  [ i \in 1..Len(es) |->
                 [ trackingNumber |-> es[i].trackingNumber,
                   status |-> IF IsDeliveredOn(es[i].html)
                              THEN <<"d", "e", "l", "i", "v", "e", "r", "e", "d">> ELSE <<"u", "n", "k", "n", "o", "w", "n">> ] ]

RECURSIVE UniqueFrom(_, _)
\* the shipments whose tracking number is not in seen, each number once
UniqueFrom(shipments, seen) ==
    IF shipments = <<>> THEN <<>>
    ELSE IF Head(shipments).trackingNumber \in seen
    THEN UniqueFrom(Tail(shipments), seen)
    ELSE <<Head(shipments)>> \o
         UniqueFrom(Tail(shipments), seen \cup {Head(shipments).trackingNumber})

\* getAllShipments without the removal of duplicates
UniqueShipmentsKeepAll(shipments) == shipments

\* getAllShipments: uniqueShipments
UniqueShipments(shipments) == UniqueFrom(shipments, {})

\* getAllShipments(page).status: the statuses in upper case, joined by commas
getAllShipments(dom) ==
    LET uniqueShipments == UniqueShipments(ShipmentResults(dom))
    IN  JoinWith([ i \in 1..Len(uniqueShipments) |->
                     ToUpperCase(uniqueShipments[i].status) ], ",")

\* mutant of AllDelivered: one delivered status is enough
SomeDelivered(statusArray) ==
    \E i \in 1..Len(statusArray) : statusArray[i] = DELIVERED

\* statusArray.every(s => s === 'DELIVERED')
AllDelivered(statusArray) ==
    \A i \in 1..Len(statusArray) : statusArray[i] = DELIVERED

\* aftershipScreenshouter: the overall status from the joined statuses
afOverallStatus(status) ==
    LET statusArray == Split(status, ",")
    IN  IF AllDelivered(statusArray) THEN DELIVERED ELSE UNKNOWN

\* the delay retryScreenshotCapture sleeps after failed attempt number attempt
afDelay(attempt) == attempt * afBaseDelay

\* const browserContext = await PlaywrightBrowserSingleton.getContext()
af_getContext ==
    /\ acq.pc = "af_getContext"
    /\ \E outcome \in ContextOutcomes :
          IF outcome = "context"
          THEN acq' = [acq EXCEPT !.pc = "af_newPage"]
          ELSE acq' = [acq EXCEPT !.pc = "route_catch",
                                  !.thrown = ContextError(outcome)]
    /\ UNCHANGED rotVars

\* page = await browserContext.newPage(), before the retry loop
af_newPage ==
    /\ acq.pc = "af_newPage"
    /\ \/ acq' = [acq EXCEPT !.pc = "af_goto", !.attempt = 1,
                             !.page = Len(acq.pages) + 1,
                             !.pages = NewPage(acq.pages, 0)]
       \/ acq' = [acq EXCEPT !.pc = "af_finally",
                             !.thrown = Err("newPage failed", 0)]
    /\ UNCHANGED rotVars

\* getTrackingURL(codes, provider); NoUrl stands for the throw of
\* 'Unsupported provider'
getTrackingURL(codes, provider) ==
    IF isJTExpress(provider)
    THEN [base |-> "https://www.aftership.com/track?c=jtexpress-vn&t=", codes |-> codes]
    ELSE IF isUSPS(provider)
    THEN [base |-> "https://www.aftership.com/track?c=usps-vn&t=", codes |-> codes]
    ELSE NoUrl

\* attemptScreenshot: getTrackingURL, then navigateAndSolveRecaptcha up to
\* page.goto(trackingURL, {waitUntil: 'networkidle'})
af_goto ==
    /\ acq.pc = "af_goto"
    /\ IF getTrackingURL(acq.codes, acq.provider) = NoUrl
       THEN Throw("af_catch", "Unsupported provider")
       ELSE \/ acq' = [acq EXCEPT !.pc = "af_solve",
                                  !.url = getTrackingURL(acq.codes, acq.provider),
                                  !.steps = Append(@, "navigate"),
                                  !.navigations = Goto(@, acq.attempt, "networkidle", TRUE),
                                  !.pages = UsePage(acq.pages, acq.page, acq.attempt)]
            \/ acq' = [acq EXCEPT !.pc = "af_catch",
                                  !.error = Err("navigation failed", acq.attempt),
                                  !.url = getTrackingURL(acq.codes, acq.provider),
                                  !.steps = Append(@, "navigate"),
                                  !.navigations = Goto(@, acq.attempt, "networkidle", FALSE),
                                  !.pages = UsePage(acq.pages, acq.page, acq.attempt)]
    /\ UNCHANGED rotVars

\* page.solveRecaptchas(): a result, with or without an error in it, or an
\* exception; result.error is logged; then the 15 s wait
af_solve ==
    /\ acq.pc = "af_solve"
    /\ \/ \E dom \in AftershipDoms, outcome \in {"solved", "error"} :
             acq' = [acq EXCEPT !.pc = "af_check", !.dom = dom,
                                !.captcha = outcome,
                                !.steps = Append(@, "settle")]
       \/ acq' = [acq EXCEPT !.pc = "af_catch", !.captcha = "threw",
                             !.error = Err("solveRecaptchas failed", acq.attempt)]
    /\ UNCHANGED rotVars

\* const hasTrackingData = await checkTrackingData(page); without data
\* attemptScreenshot returns null
af_check ==
    /\ acq.pc = "af_check"
    /\ \/ /\ afCheckTrackingData(acq.dom)
          /\ acq' = [acq EXCEPT !.pc = "af_getAllShipments",
                                   !.steps = Append(@, "data")]
       \/ /\ ~afCheckTrackingData(acq.dom)
          /\ acq' = [acq EXCEPT !.pc = "af_null",
                                   !.steps = Append(@, "no data")]
       \/ Throw("af_catch", "evaluate failed")
    /\ UNCHANGED rotVars

\* const { status } = await getAllShipments(page)
af_getAllShipments ==
    /\ acq.pc = "af_getAllShipments"
    /\ \/ acq' = [acq EXCEPT !.pc = "af_captureScreenshot",
                             !.steps = Append(@, "status"),
                             !.status = getAllShipments(acq.dom)]
       \/ Throw("af_catch", "evaluate failed")
    /\ UNCHANGED rotVars

\* const buffer = await captureScreenshot(page); return { buffer, status }
\* out of the retry loop
af_captureScreenshot ==
    /\ acq.pc = "af_captureScreenshot"
    /\ \/ acq' = [acq EXCEPT !.pc = "af_overall", !.buffer = ImageBytes,
                             !.steps = Append(@, "screenshot"),
                             !.attemptLog = Append(@, "ok")]
       \/ Throw("af_catch", "screenshot failed")
    /\ UNCHANGED rotVars

\* retryScreenshotCapture with a null result: the backoff sleep, attempt++
\* and the next attempt on the same page; on the last attempt the throw of
\* 'No tracking data found after all retries'
af_null ==
    /\ acq.pc = "af_null"
    /\ IF acq.attempt < afMaxRetries
       THEN acq' = [acq EXCEPT !.pc = "af_goto",
                               !.sleeps = Append(@, afDelay(acq.attempt)),
                               !.attemptLog = Append(@, "fail"),
                               !.attempt = @ + 1,
                               !.dom = NoDom, !.steps = <<>>, !.navigations = <<>>,
                                      !.captcha = "none", !.status = Undefined,
                               !.buffer = Undefined]
       ELSE Throw("af_catch", "No tracking data found after all retries")
    /\ UNCHANGED rotVars

\* catch (error) of retryScreenshotCapture: lastError = error and the
\* backoff sleep; then attempt++ and the loop test: the next attempt on the
\* same page, or throw lastError || new Error(...) after the loop
af_catch ==
    /\ acq.pc = "af_catch"
    /\ LET caught == [acq EXCEPT !.lastError = acq.error,
                                 !.error = NoError,
                                 !.attemptLog = Append(@, "fail"),
                                 !.sleeps = IF acq.attempt < afMaxRetries
                                            THEN Append(@, afDelay(acq.attempt))
                                            ELSE @,
                                 !.attempt = @ + 1]
       IN  IF caught.attempt <= afMaxRetries
           THEN acq' = [caught EXCEPT !.pc = "af_goto", !.dom = NoDom, !.steps = <<>>, !.navigations = <<>>,
                                      !.captcha = "none",
                                      !.status = Undefined,
                                      !.buffer = Undefined]
           ELSE acq' = [caught EXCEPT !.pc = "af_finally",
                                      !.thrown =
                                         IF caught.lastError # NoError
                                         THEN caught.lastError
                                         ELSE Err("Failed to capture screenshot after all retries", 0)]
    /\ UNCHANGED rotVars

\* aftershipScreenshouter after retryScreenshotCapture returned: the
\* overall status
af_overall ==
    /\ acq.pc = "af_overall"
    /\ acq' = [acq EXCEPT !.pc = "af_finally",
                          !.result = [status |-> afOverallStatus(acq.status),
                                      buffer |-> acq.buffer]]
    /\ UNCHANGED rotVars

\* finally: the page is closed, then the return or the rethrow
af_finally ==
    /\ acq.pc = "af_finally"
    /\ acq' = [acq EXCEPT !.pc = IF acq.thrown = NoError
                                 THEN "route_send" ELSE "route_catch",
                          !.pages = closePage(acq.pages, acq.page)]
    /\ UNCHANGED rotVars
-----------------------------------------------------------------------------
(* Viettel Post (viettelPostScreenshoter) *)

\* const maxRetries = 3 in getTrackingData
vtMaxRetries == 3

\* the base of the backoff delay in getTrackingData, in ms
vtBaseDelay == 3000

\* the JSON bodies the tracking API can answer with; TRANGTHAI is missing,
\* the delivered phrase, or another text
ViettelResponses ==
    [ kind : {"viettel"}, error : BOOLEAN,
      TRANGTHAI : { Undefined,
                    <<"G", "i", "a", "o", " ", "t", "h", "a_grave", "n", "h", " ", "c", "o_circ", "n", "g">>,
                    <<"D_STROKE", "a", "n", "g", " ", "v", "a_circ_dot", "n", " ", "c", "h", "u", "y", "e_circ_hook", "n">> } ]

\* orderData.TRANGTHAI || 'UNKNOWN'
vtRawStatus(orderData) ==
    IF orderData.TRANGTHAI = Undefined \/ orderData.TRANGTHAI = <<>>
    THEN UNKNOWN
    ELSE orderData.TRANGTHAI

\* rawStatus === (the delivered phrase) ? 'DELIVERED' : rawStatus
vtStatus(rawStatus) ==
    IF rawStatus = <<"G", "i", "a", "o", " ", "t", "h", "a_grave", "n", "h", " ", "c", "o_circ", "n", "g">> THEN DELIVERED ELSE rawStatus

\* the delay getTrackingData sleeps after failed attempt number attempt
vtDelay(attempt) == attempt * vtBaseDelay

\* the finally clause of renderScreenshot: if (page) await page.close()
vtFinallyClose(pages, p) ==
    IF p # NoPage THEN PageClose(pages, p) ELSE pages

\* an exception in the try block of renderScreenshot: through catch to finally
vtRenderThrow(msg) ==
    acq' = [acq EXCEPT !.pc = "vt_renderFinally", !.thrown = Err(msg, 0)]

\* getTrackingData up to the loop: new Solver(...), attempt = 1
vt_getTrackingData ==
    /\ acq.pc = "vt_getTrackingData"
    /\ acq' = [acq EXCEPT !.pc = "vt_solve", !.attempt = 1]
    /\ UNCHANGED rotVars

\* getTrackingData calling the API whether or not the solver returned a token
vt_solveUnchecked ==
    /\ acq.pc = "vt_solve"
    /\ \/ acq' = [acq EXCEPT !.pc = "vt_fetch", !.captcha = "solved",
                              !.captchaToken = acq.attempt]
       \/ acq' = [acq EXCEPT !.pc = "vt_fetch", !.captcha = "threw"]
    /\ UNCHANGED rotVars

\* getTrackingData: await solver.recaptcha(...), the solver having been
\* built with env.captchaSolverApiKey || ''
vt_solve ==
    /\ acq.pc = "vt_solve"
    /\ LET called == [acq EXCEPT !.credentials = @ \cup
                         { [service |-> "2captcha", from |-> "env.captchaSolverApiKey",
                            key |-> IF env.captchaSolverApiKey = Undefined THEN <<>>
                                    ELSE env.captchaSolverApiKey] }]
       IN  \/ acq' = [called EXCEPT !.pc = "vt_fetch", !.captcha = "solved",
                                    !.captchaToken = acq.attempt]
           \/ acq' = [called EXCEPT !.pc = "vt_catch", !.captcha = "threw",
                                    !.error = Err("captcha solving failed", acq.attempt)]
    /\ UNCHANGED rotVars

\* getTrackingData: the fetch of the tracking API, the throw on a status
\* that is not ok, response.json() and return result
vt_fetch ==
    /\ acq.pc = "vt_fetch"
    /\ \/ \E resp \in ViettelResponses :
             acq' = [acq EXCEPT !.pc = "vt_status", !.dom = resp,
                                !.attemptLog = Append(@, "ok")]
       \/ Throw("vt_catch", "ViettelPost API returned status")
       \/ Throw("vt_catch", "fetch failed")
    /\ UNCHANGED rotVars

\* catch (error) of getTrackingData: lastError = error and the backoff
\* sleep; then attempt++ and the loop test: the next attempt, or throw
\* lastError || new Error(...) after the loop, which
\* viettelPostScreenshoter lets through
vt_catch ==
    /\ acq.pc = "vt_catch"
    /\ LET caught == [acq EXCEPT !.lastError = acq.error,
                                 !.error = NoError,
                                 !.attemptLog = Append(@, "fail"),
                                 !.sleeps = IF acq.attempt < vtMaxRetries
                                            THEN Append(@, vtDelay(acq.attempt))
                                            ELSE @,
                                 !.captchaToken = 0,
                                 !.attempt = @ + 1]
       IN  IF caught.attempt <= vtMaxRetries
           THEN acq' = [caught EXCEPT !.pc = "vt_solve", !.captcha = "none"]
           ELSE acq' = [caught EXCEPT !.pc = "route_catch",
                                      !.thrown =
                                         IF caught.lastError # NoError
                                         THEN caught.lastError
                                         ELSE Err("Failed to fetch ViettelPost tracking data after all retries", 0)]
    /\ UNCHANGED rotVars

\* viettelPostScreenshoter after getTrackingData: the error flag of the
\* response, then the status from orderData.TRANGTHAI
vt_status ==
    /\ acq.pc = "vt_status"
    /\ IF acq.dom.error
       THEN acq' = [acq EXCEPT !.pc = "route_catch",
                               !.thrown = Err("Viettel Post API returned an error", 0)]
       ELSE acq' = [acq EXCEPT !.pc = "vt_renderContext",
                               !.status = vtStatus(vtRawStatus(acq.dom))]
    /\ UNCHANGED rotVars

\* renderScreenshot: reading the template and the icon and filling the
\* template, then await PlaywrightBrowserSingleton.getContext()
vt_renderContext ==
    /\ acq.pc = "vt_renderContext"
    /\ \/ \E outcome \in ContextOutcomes :
             IF outcome = "context"
             THEN acq' = [acq EXCEPT !.pc = "vt_renderNewPage"]
             ELSE acq' = [acq EXCEPT !.pc = "vt_renderFinally",
                                     !.thrown = ContextError(outcome)]
       \/ vtRenderThrow("readFileSync failed")
    /\ UNCHANGED rotVars

\* renderScreenshot: page = await browserContext.newPage()
vt_renderNewPage ==
    /\ acq.pc = "vt_renderNewPage"
    /\ \/ acq' = [acq EXCEPT !.pc = "vt_renderSetContent",
                             !.page = Len(acq.pages) + 1,
                             !.pages = NewPage(acq.pages, 0)]
       \/ vtRenderThrow("newPage failed")
    /\ UNCHANGED rotVars

\* renderScreenshot: await page.setContent(html) and the 10 s wait
vt_renderSetContent ==
    /\ acq.pc = "vt_renderSetContent"
    /\ \/ acq' = [acq EXCEPT !.pc = "vt_renderScreenshot",
                             !.pages = UsePage(acq.pages, acq.page, 0)]
       \/ acq' = [acq EXCEPT !.pc = "vt_renderFinally",
                             !.thrown = Err("setContent failed", 0),
                             !.pages = UsePage(acq.pages, acq.page, 0)]
    /\ UNCHANGED rotVars

\* renderScreenshot: await page.screenshot(...)
vt_renderScreenshot ==
    /\ acq.pc = "vt_renderScreenshot"
    /\ \/ acq' = [acq EXCEPT !.pc = "vt_renderFinally", !.buffer = ImageBytes]
       \/ vtRenderThrow("screenshot failed")
    /\ UNCHANGED rotVars

\* renderScreenshot: finally, then the return of viettelPostScreenshoter
\* or the rethrow
vt_renderFinally ==
    /\ acq.pc = "vt_renderFinally"
    /\ IF acq.thrown = NoError
       THEN acq' = [acq EXCEPT !.pc = "route_send",
                               !.pages = vtFinallyClose(acq.pages, acq.page),
                               !.result = [status |-> acq.status,
                                           buffer |-> acq.buffer]]
       ELSE acq' = [acq EXCEPT !.pc = "route_catch",
                               !.pages = vtFinallyClose(acq.pages, acq.page)]
    /\ UNCHANGED rotVars

-----------------------------------------------------------------------------
(* Best Express (helpers/bestExpressScreenshouter.ts) *)

\* the JSON bodies browserless.io can answer with; base64 is missing,
\* empty, the encoding of three bytes, or padding alone
BestResponses ==
    [ kind : {"best"},
      base64 : { Undefined, <<>>, <<"a", "W", "1", "n">>, <<"=">> },
      text : { Undefined, <<"D", "e", "l", "i", "v", "e", "r", "e", "d">>, <<"I", "n", " ", "t", "r", "a", "n", "s", "i", "t">> } ]

\* !result.data?.screenshot?.base64
beNoScreenshot(resp) == resp.base64 = Undefined \/ resp.base64 = <<>>

\* the base64 alphabet
Base64Alphabet ==
    <<"A", "B", "C", "D", "E", "F", "G", "H", "I", "J", "K", "L", "M", "N", "O", "P", "Q", "R", "S", "T", "U", "V", "W", "X", "Y", "Z",
      "a", "b", "c", "d", "e", "f", "g", "h", "i", "j", "k", "l", "m", "n", "o", "p", "q", "r", "s", "t", "u", "v", "w", "x", "y", "z",
      "0", "1", "2", "3", "4", "5", "6", "7", "8", "9", "+", "/">>

\* the 6-bit values of the characters of base64 that are in the alphabet;
\* the other characters carry no data
Base64Digits(base64) ==
    LET inAlphabet(c) == \E i \in 1..Len(Base64Alphabet) : Base64Alphabet[i] = c
        digits == SelectSeq(base64, inAlphabet)
    IN  [ i \in 1..Len(digits) |->
            (CHOOSE k \in 1..Len(Base64Alphabet) : Base64Alphabet[k] = digits[i]) - 1 ]

RECURSIVE Base64Bytes(_)
\* the bytes that a sequence of 6-bit values decodes to
Base64Bytes(ds) ==
    IF Len(ds) < 2 THEN <<>>
    ELSE IF Len(ds) = 2
    THEN << (ds[1] * 64 + ds[2]) \div 16 >>
    ELSE IF Len(ds) = 3
    THEN LET n == ds[1] * 4096 + ds[2] * 64 + ds[3]
         IN  << n \div 1024, (n \div 4) % 256 >>
    ELSE LET n == ds[1] * 262144 + ds[2] * 4096 + ds[3] * 64 + ds[4]
         IN  << n \div 65536, (n \div 256) % 256, n % 256 >>
             \o Base64Bytes(SubSeq(ds, 5, Len(ds)))

\* Buffer.from(base64, 'base64')
beBufferFrom(base64) == Base64Bytes(Base64Digits(base64))

\* the status from result.data?.trackingStatus?.text || ''
beStatus(resp) ==
    LET trackingStatusText == IF resp.text = Undefined THEN <<>> ELSE resp.text
        isDelivered == Includes(ToUpperCase(trackingStatusText), DELIVERED)
    IN  IF isDelivered THEN DELIVERED ELSE UNKNOWN

\* const token = getNextBrowserlessToken() and the throw without a token
be_token ==
    /\ acq.pc = "be_token"
    /\ getNextToken
    /\ IF ret'.val = Undefined
       THEN acq' = [acq EXCEPT !.pc = "route_catch",
                               !.thrown = Err("No Browserless API token available", 0)]
       ELSE acq' = [acq EXCEPT !.pc = "be_fetch"]

\* the fetch of browserless.io, the throw on a status that is not ok, and
\* response.json()
be_fetch ==
    /\ acq.pc = "be_fetch"
    /\ \/ \E resp \in BestResponses :
             acq' = [acq EXCEPT !.pc = "be_result", !.dom = resp]
       \/ acq' = [acq EXCEPT !.pc = "route_catch",
                             !.thrown = Err("Browserless API returned status", 0)]
       \/ acq' = [acq EXCEPT !.pc = "route_catch",
                             !.thrown = Err("fetch failed", 0)]
    /\ UNCHANGED rotVars

\* the throw without screenshot data, else the buffer and the status
be_result ==
    /\ acq.pc = "be_result"
    /\ IF beNoScreenshot(acq.dom)
       THEN acq' = [acq EXCEPT !.pc = "route_catch",
                               !.thrown = Err("No screenshot data in response", 0)]
       ELSE acq' = [acq EXCEPT !.pc = "route_send",
                               !.buffer = beBufferFrom(acq.dom.base64),
                               !.result = [status |-> beStatus(acq.dom),
                                           buffer |-> beBufferFrom(acq.dom.base64)]]
    /\ UNCHANGED rotVars
-----------------------------------------------------------------------------
(* The route POST /api/v1/tracking (routes/tracking.ts) *)

\* the provider values of a request body: missing, empty, one name for
\* each branch of the dispatch, and a carrier that is not supported
Providers ==
    { Undefined, <<>>, <<"V", "i", "e", "t", "t", "e", "l", " ", "P", "o", "s", "t">>, <<"S", "P", "X">>, <<"G", "H", "N">>, <<"Y", "u", "n", "E", "x", "p", "r", "e", "s", "s">>, <<"J", "&", "T">>,
      <<"U", "S", "P", "S">>, <<"V", "N", " ", "P", "o", "s", "t">>, <<"B", "e", "s", "t", " ", "E", "x", "p", "r", "e", "s", "s">>, <<"D", "H", "L">> }

\* the codes values of a request body
CodesValues == { Undefined, <<>>, <<"T", "1">> }

\* the validation with the test of codes left out
MissingParameterProviderOnly(provider, codes) ==
    \/ provider = Undefined \/ provider = <<>>

\* !provider || !codes
MissingParameter(provider, codes) ==
    \/ provider = Undefined \/ provider = <<>>
    \/ codes = Undefined \/ codes = <<>>

\* the chain with the SPX test moved in front of the Viettel Post test
BranchSPXFirst(provider) ==
    IF isSPX(provider) THEN "isSPX"
    ELSE IF isViettelPost(provider) THEN "isViettelPost"
    ELSE IF isGiaoHangNhanh(provider) THEN "isGiaoHangNhanh"
    ELSE IF isYunExpress(provider) THEN "isYunExpress"
    ELSE IF isJTExpress(provider) \/ isUSPS(provider) THEN "isJTExpress || isUSPS"
    ELSE IF isVnPost(provider) THEN "isVnPost"
    ELSE IF isBestExpress(provider) THEN "isBestExpress"
    ELSE "else"

\* the if / else if chain of the route: the branch that is taken, named
\* by its condition ("else" when no condition holds)
Branch(provider) ==
    IF isViettelPost(provider) THEN "isViettelPost"
    ELSE IF isSPX(provider) THEN "isSPX"
    ELSE IF isGiaoHangNhanh(provider) THEN "isGiaoHangNhanh"
    ELSE IF isYunExpress(provider) THEN "isYunExpress"
    ELSE IF isJTExpress(provider) \/ isUSPS(provider) THEN "isJTExpress || isUSPS"
    ELSE IF isVnPost(provider) THEN "isVnPost"
    ELSE IF isBestExpress(provider) THEN "isBestExpress"
    ELSE "else"

\* the strategy function called in each branch
Dispatch(provider) ==
    LET branch == Branch(provider)
    IN  CASE branch = "isViettelPost" -> "viettelPostScreenshoter"
          [] branch \in {"isSPX", "isGiaoHangNhanh", "isYunExpress"} -> "screenshoter"
          [] branch = "isJTExpress || isUSPS" -> "aftershipScreenshouter"
          [] branch = "isVnPost" -> "vnPostScreenshoter"
          [] branch = "isBestExpress" -> "bestExpressScreenshouter"
          [] OTHER -> "unsupported"

\* the URL the route passes to screenshoter in the branches that call it
RouteUrl(branch, codes) ==
    CASE branch = "isSPX" -> [base |-> "https://spx.vn/track?", codes |-> codes]
      [] branch = "isGiaoHangNhanh" ->
            [base |-> "https://donhang.ghn.vn/?order_code=", codes |-> codes]
      [] branch = "isYunExpress" ->
            [base |-> "https://www.yuntrack.com/parcelTracking?id=", codes |-> codes]
      [] OTHER -> NoUrl

\* where each strategy function starts
EntryPoint(strategy) ==
    CASE strategy = "viettelPostScreenshoter" -> "vt_getTrackingData"
      [] strategy = "screenshoter" -> "ss_getContext"
      [] strategy = "aftershipScreenshouter" -> "af_getContext"
      [] strategy = "vnPostScreenshoter" -> "vn_getContext"
      [] strategy = "bestExpressScreenshouter" -> "be_token"

\* res.status(400).json({ success: false, error })
BadRequest(error) == [code |-> 400, type |-> "json", error |-> error]

\* the headers and the body of the image response
ImageResponse(result) ==
    [code |-> 200, type |-> "image/png",
     XTrackingStatus |-> result.status, body |-> result.buffer]

\* res.status(500).json({ success: false, error, message, duration })
ServerError(error) ==
    [code |-> 500, type |-> "json", error |-> "Failed to get tracking image",
     message |-> error.msg]

\* a request arrives with a provider label of the given set: the
\* validation of the body and the dispatch, up to the first await of the
\* strategy
route_request(labels) ==
    /\ acq.pc = "idle"
    /\ \E provider \in labels, codes \in CodesValues :
          LET req == [acq EXCEPT !.provider = provider, !.codes = codes]
              strategy == Dispatch(provider)
          IN  IF MissingParameter(provider, codes)
              THEN acq' = [req EXCEPT !.pc = "done",
                              !.responses = Append(@, BadRequest("Provider and codes parameters are required"))]
              ELSE IF strategy = "unsupported"
              THEN acq' = [req EXCEPT !.pc = "done", !.branch = "else",
                              !.responses = Append(@, BadRequest("Provider is not supported yet"))]
              ELSE acq' = [req EXCEPT !.pc = EntryPoint(strategy),
                              !.branch = Branch(provider),
                              !.url = RouteUrl(Branch(provider), codes),
                              !.strategy = strategy]
    /\ UNCHANGED rotVars

\* a request arrives
route_post == route_request(Providers)

\* the strategy returned: the headers and res.send(result.buffer)
route_send ==
    /\ acq.pc = "route_send"
    /\ acq' = [acq EXCEPT !.pc = "done",
                          !.responses = Append(@, ImageResponse(acq.result))]
    /\ UNCHANGED rotVars

\* the strategy threw: catch (error) sends the 500 response
route_catch ==
    /\ acq.pc = "route_catch"
    /\ acq' = [acq EXCEPT !.pc = "done",
                          !.responses = Append(@, ServerError(acq.thrown))]
    /\ UNCHANGED rotVars
-----------------------------------------------------------------------------
(* The browser session manager (helpers/PlaywrightBrowserSingleton.ts) and
   the acquisitions that share it.  A browser, a context or a page is
   identified by a positive number; 0 stands for null / undefined.  Each
   action is the code between two awaits. *)

MAX_CONTEXTS == 1

\* the static fields as the class initializes them
PbsInitial == [browserInstance |-> 0, browserContexts |-> <<>>, contextIndex |-> 0]

\* array[i] of a JavaScript array (undefined where nothing was stored);
\* the array is a function on the indexes that were assigned
ArrayGet(array, i) == IF i \in DOMAIN array THEN array[i] ELSE 0

\* array[i] = v
ArrayPut(array, i, v) ==
    [j \in DOMAIN array \cup {i} |-> IF j = i THEN v ELSE array[j]]

\* the 'disconnected' listener that leaves the browser reference as it is
onDisconnectedKeepsBrowser(m) == [m EXCEPT !.browserContexts = <<>>, !.contextIndex = 0]

\* the listener of 'disconnected'
onDisconnected(m) ==
    [m EXCEPT !.browserInstance = 0, !.browserContexts = <<>>, !.contextIndex = 0]

\* the listener of 'close' of a context created for slot nextIndex
onClose(m, nextIndex) ==
    [m EXCEPT !.browserContexts = ArrayPut(@, nextIndex, 0)]

\* the listeners of 'close' of several contexts, one after the other
RECURSIVE onCloseAll(_, _)
onCloseAll(m, cs) ==
    IF cs = {} THEN m
    ELSE LET c == CHOOSE x \in cs : TRUE
         IN  onCloseAll(onClose(m, contexts[c].slot), cs \ {c})

\* if (this.browserContexts[nextIndex]) with the test always false
SlotFilledNever(m, nextIndex) == FALSE

\* if (this.browserContexts[nextIndex])
SlotFilled(m, nextIndex) == ArrayGet(m.browserContexts, nextIndex) # 0

\* the two concurrent callers
Callers == {1, 2}

\* a caller between two acquisitions
IdleSession ==
    [ pc        |-> "idle",
      runs      |-> 0,        \* acquisitions started
      browser   |-> 0,        \* getContext: const browser
      nextIndex |-> 0,        \* getContext: const nextIndex
      context   |-> 0,        \* the strategy's browserContext
      attempt   |-> 0,        \* the strategy's loop variable
      page      |-> 0,        \* the strategy's page, while it is open
      outcome   |-> "none",   \* how the last acquisition ended
      launched  |-> FALSE,    \* this getContext call launched a browser
      calls     |-> 0,        \* getContext calls of this acquisition
      advances  |-> 0 ]       \* assignments of contextIndex made by them

\* a page is usable while its context and its browser are
ContextAlive(c) == ~contexts[c].closed /\ browsers[contexts[c].browser].connected

\* the exception leaves getContext and the strategy that awaited it
\* outside its try block
Rejected(p, why) ==
    sessions' = [sessions EXCEPT ![p].pc = "idle", ![p].outcome = why,
                                 ![p].browser = 0, ![p].context = 0]

\* a strategy calls getContext(), which calls getInstance(): up to the
\* await of the launch, or to the return of the memoized browser
getContext_call(p) ==
    /\ sessions[p].pc = "idle"
    /\ sessions[1].runs + sessions[2].runs < MaxRuns
    /\ LET s == [IdleSession EXCEPT !.runs = sessions[p].runs + 1, !.calls = 1]
       IN  IF pbs.browserInstance # 0
           THEN sessions' = [sessions EXCEPT ![p] =
                                [s EXCEPT !.pc = "gc_browser",
                                          !.browser = pbs.browserInstance]]
           ELSE sessions' = [sessions EXCEPT ![p] = [s EXCEPT !.pc = "gi_launch"]]
    /\ overlapped' =
          \/ overlapped
          \/ \E q \in Callers \ {p} :
                sessions[q].pc \in {"gi_launch", "gc_browser", "gc_newContext"}
    /\ UNCHANGED <<pbs, browsers, contexts>>

\* firefox.launch() settles: the browser is stored and its 'disconnected'
\* listener registered, or the rejection leaves getInstance and getContext
getInstance_launch(p) ==
    /\ sessions[p].pc = "gi_launch"
    /\ \/ /\ Len(browsers) < MaxLaunches
          /\ browsers' = Append(browsers, [connected |-> TRUE])
          /\ pbs' = [pbs EXCEPT !.browserInstance = Len(browsers) + 1]
          /\ sessions' = [sessions EXCEPT ![p].pc = "gc_browser",
                                          ![p].launched = TRUE,
                                          ![p].browser = Len(browsers) + 1]
       \/ /\ Rejected(p, "launch rejected")
          /\ UNCHANGED <<pbs, browsers>>
    /\ UNCHANGED <<contexts, overlapped>>

\* getContext after await this.getInstance(): the slot is selected and its
\* context returned, or browser.newContext() is called
getContext_select(p) ==
    /\ sessions[p].pc = "gc_browser"
    /\ LET nextIndex == pbs.contextIndex % MAX_CONTEXTS
       IN  IF sessions[p].browser = 0
           THEN /\ sessions' = [sessions EXCEPT ![p].pc = "idle",
                                                ![p].outcome = "no context"]
                /\ pbs' = pbs
           ELSE IF SlotFilled(pbs, nextIndex)
           THEN /\ sessions' = [sessions EXCEPT
                                   ![p].pc = "ss_newPage",
                                   ![p].nextIndex = nextIndex,
                                   ![p].context = ArrayGet(pbs.browserContexts, nextIndex),
                                   ![p].advances = @ + 1,
                                   ![p].attempt = 1]
                /\ pbs' = [pbs EXCEPT !.contextIndex = (@ + 1) % MAX_CONTEXTS]
           ELSE /\ sessions' = [sessions EXCEPT ![p].pc = "gc_newContext",
                                                ![p].nextIndex = nextIndex]
                /\ pbs' = pbs
    /\ UNCHANGED <<browsers, contexts, overlapped>>

\* browser.newContext() settles: the context gets its 'close' listener, is
\* stored in the slot and returned
getContext_newContext(p) ==
    /\ sessions[p].pc = "gc_newContext"
    /\ \/ /\ browsers[sessions[p].browser].connected
          /\ Len(contexts) < MaxNewContexts
          /\ LET nextIndex == sessions[p].nextIndex
                 stored == ArrayPut(pbs.browserContexts, nextIndex, Len(contexts) + 1)
             IN  /\ contexts' = Append(contexts,
                        [browser |-> sessions[p].browser, slot |-> nextIndex,
                         closed |-> FALSE])
                 /\ pbs' = [pbs EXCEPT !.browserContexts = stored,
                                       !.contextIndex = (@ + 1) % MAX_CONTEXTS]
                 /\ sessions' = [sessions EXCEPT
                                    ![p].pc = "ss_newPage",
                                    ![p].context = ArrayGet(stored, nextIndex),
                                    ![p].advances = @ + 1,
                                    ![p].attempt = 1]
       \/ /\ Rejected(p, "newContext rejected")
          /\ UNCHANGED <<pbs, contexts>>
    /\ UNCHANGED <<browsers, overlapped>>

\* the pages of the acquisitions whose context is one of cs are closed
\* with their context
ClosePagesOf(cs) ==
    [p \in Callers |->
        IF sessions[p].page # 0 /\ sessions[p].context \in cs
        THEN [sessions[p] EXCEPT !.page = 0]
        ELSE sessions[p]]

\* a context closes: its pages close and its 'close' listener runs
context_close(c) ==
    /\ c \in DOMAIN contexts
    /\ ~contexts[c].closed
    /\ contexts' = [contexts EXCEPT ![c].closed = TRUE]
    /\ pbs' = onClose(pbs, contexts[c].slot)
    /\ sessions' = ClosePagesOf({c})
    /\ UNCHANGED <<browsers, overlapped>>

\* a browser disconnects: its contexts close, then its 'disconnected'
\* listener runs
browser_disconnected(b) ==
    /\ b \in DOMAIN browsers
    /\ browsers[b].connected
    /\ LET cs == { c \in DOMAIN contexts :
                      contexts[c].browser = b /\ ~contexts[c].closed }
       IN  /\ browsers' = [browsers EXCEPT ![b].connected = FALSE]
           /\ contexts' = [c \in DOMAIN contexts |->
                              IF c \in cs THEN [contexts[c] EXCEPT !.closed = TRUE]
                              ELSE contexts[c]]
           /\ pbs' = onDisconnected(onCloseAll(pbs, cs))
           /\ sessions' = ClosePagesOf(cs)
    /\ UNCHANGED overlapped

\* a retry loop that calls getContext again before each further attempt
SessionCatchNewContext(s) ==
    IF s.attempt < ssMaxRetries
    THEN [s EXCEPT !.pc = "gc_browser", !.page = 0, !.calls = @ + 1]
    ELSE [s EXCEPT !.pc = "idle", !.page = 0, !.context = 0, !.browser = 0,
                   !.outcome = "attempts failed"]

\* the catch clause of the strategy's retry loop: the page is closed and
\* the next attempt starts, or the last error is thrown
SessionCatch(s) ==
    IF s.attempt < ssMaxRetries
    THEN [s EXCEPT !.pc = "ss_newPage", !.page = 0, !.attempt = @ + 1]
    ELSE [s EXCEPT !.pc = "idle", !.page = 0, !.context = 0, !.browser = 0,
                   !.outcome = "attempts failed"]

\* browserContext.newPage() of an attempt settles: the new page object is
\* numbered by its caller, acquisition and attempt
session_newPage(p) ==
    /\ sessions[p].pc = "ss_newPage"
    /\ \/ /\ ContextAlive(sessions[p].context)
          /\ sessions' = [sessions EXCEPT
                             ![p].pc = "ss_page",
                             ![p].page = 100 * p + 10 * sessions[p].runs
                                           + sessions[p].attempt]
       \/ sessions' = [sessions EXCEPT ![p] = SessionCatch(@)]
    /\ UNCHANGED <<pbs, browsers, contexts, overlapped>>

\* the work of an attempt on its page ends: the page is closed and the
\* result returned, or the catch clause runs
session_attempt(p) ==
    /\ sessions[p].pc = "ss_page"
    /\ \/ /\ sessions[p].page # 0
          /\ sessions' = [sessions EXCEPT ![p].pc = "idle", ![p].page = 0,
                                          ![p].context = 0, ![p].browser = 0,
                                          ![p].outcome = "returned"]
       \/ sessions' = [sessions EXCEPT ![p] = SessionCatch(@)]
    /\ UNCHANGED <<pbs, browsers, contexts, overlapped>>

PbsInit ==
    /\ pbs = PbsInitial
    /\ browsers = <<>>
    /\ contexts = <<>>
    /\ sessions = [p \in Callers |-> IdleSession]
    /\ overlapped = FALSE


-----------------------------------------------------------------------------
(* The application: the handlers and middleware a request passes through
   after the parsers, in the order in which they are registered *)

\* env.apiPrefix with API_PREFIX unset: '/api/v1', as its path segments
apiPrefix == <<"api", "v1">>

\* the requests: the method, the path as its segments, and the value of
\* the x-api-key header (undefined when the header is absent)
Methods == {"GET", "POST"}

Paths ==
    { <<>>, <<"health">>, <<"index.html">>, <<"api">>, <<"api", "v1">>,
      <<"api", "v1", "tracking">>, <<"api", "v1", "other">> }

HeaderValues == { Undefined, <<>>, <<"s">>, <<"S">>, <<"s", "2">> }

\* no request yet
IdleHttp ==
    [ pc        |-> "idle",
      method    |-> "none",
      path      |-> <<>>,
      apiKey    |-> Undefined,     \* req.headers['x-api-key']
      log       |-> <<>>,          \* the handlers that ran, in order
      responses |-> <<>> ]         \* the responses sent through res

\* whether a middleware mounted at the prefix runs for the path
Mounted(prefix, path) ==
    /\ Len(path) >= Len(prefix)
    /\ SubSeq(path, 1, Len(prefix)) = prefix

\* the path a middleware mounted at the prefix sees
Stripped(prefix, path) == SubSeq(path, Len(prefix) + 1, Len(path))

\* res.status(code).json({ success: false, error })
JsonError(code, error) == [code |-> code, type |-> "json", error |-> error]

\* next()
CallNext == [type |-> "next"]

\* a middleware that lets every request through
apiKeyAuthDisabled(xApiKey, apiKey) == CallNext

\* apiKeyAuth: its call of next(), or the response it sends instead
apiKeyAuth(xApiKey, apiKey) ==
    IF xApiKey = Undefined THEN CallNext
    ELSE IF apiKey = Undefined \/ apiKey = <<>>
    THEN JsonError(401, "API key is required. Please provide X-API-Key header.")
    ELSE IF apiKey # xApiKey
    THEN JsonError(403, "Invalid API key.")
    ELSE CallNext

\* a request has passed the parsers and reaches the first route
app_request ==
    /\ http.pc = "idle"
    /\ \E method \in Methods, path \in Paths, apiKey \in HeaderValues :
          http' = [http EXCEPT !.pc = "health", !.method = method,
                               !.path = path, !.apiKey = apiKey]
    /\ UNCHANGED <<rotVars, acq, pbsVars>>

\* app.get('/health', ...)
app_health ==
    /\ http.pc = "health"
    /\ IF http.method = "GET" /\ http.path = <<"health">>
       THEN http' = [http EXCEPT !.pc = "done",
                        !.log = Append(@, "health"),
                        !.responses = Append(@, [code |-> 200, type |-> "json", status |-> "OK"])]
       ELSE http' = [http EXCEPT !.pc = "static"]
    /\ UNCHANGED <<rotVars, acq, pbsVars>>

\* app.use(express.static(public)): a GET of a path outside the API
\* prefix is answered with a file when the directory holds one for it; the
\* directory holds nothing under the API prefix
app_static ==
    /\ http.pc = "static"
    /\ \E found \in (IF http.method = "GET" /\ ~Mounted(apiPrefix, http.path)
                     THEN BOOLEAN ELSE {FALSE}) :
          IF found
          THEN http' = [http EXCEPT !.pc = "done",
                           !.log = Append(@, "static"),
                           !.responses = Append(@, [code |-> 200, type |-> "file"])]
          ELSE http' = [http EXCEPT !.pc = "apiKeyAuth"]
    /\ UNCHANGED <<rotVars, acq, pbsVars>>

\* app.use(env.apiPrefix, apiKeyAuth)
app_apiKeyAuth ==
    /\ http.pc = "apiKeyAuth"
    /\ IF ~Mounted(apiPrefix, http.path)
       THEN http' = [http EXCEPT !.pc = "apiRoutes"]
       ELSE LET outcome == apiKeyAuth(env.xApiKey, http.apiKey)
            IN  IF outcome = CallNext
                THEN http' = [http EXCEPT !.pc = "apiRoutes",
                                 !.log = Append(@, "apiKeyAuth")]
                ELSE http' = [http EXCEPT !.pc = "done",
                                 !.log = Append(@, "apiKeyAuth"),
                                 !.responses = Append(@, outcome)]
    /\ UNCHANGED <<rotVars, acq, pbsVars>>

\* app.use(env.apiPrefix, apiRoutes): the router with the tracking routes
\* and the default API route; a request none of its routes takes goes on
app_apiRoutes ==
    /\ http.pc = "apiRoutes"
    /\ IF ~Mounted(apiPrefix, http.path)
       THEN http' = [http EXCEPT !.pc = "notFound"]
       ELSE LET rest == Stripped(apiPrefix, http.path)
            IN  IF http.method = "POST" /\ rest = <<"tracking">>
                THEN http' = [http EXCEPT !.pc = "done",
                                 !.log = @ \o <<"apiRoutes", "trackingRoutes">>,
                                 !.responses = Append(@, [code |-> 200, type |-> "tracking"])]
                ELSE IF http.method = "GET" /\ rest = <<>>
                THEN http' = [http EXCEPT !.pc = "done",
                                 !.log = @ \o <<"apiRoutes", "default">>,
                                 !.responses = Append(@, [code |-> 200, type |-> "json", status |-> "running"])]
                ELSE http' = [http EXCEPT !.pc = "notFound",
                                 !.log = Append(@, "apiRoutes")]
    /\ UNCHANGED <<rotVars, acq, pbsVars>>

\* app.use(notFoundHandler)
app_notFound ==
    /\ http.pc = "notFound"
    /\ http' = [http EXCEPT !.pc = "done",
                   !.log = Append(@, "notFoundHandler"),
                   !.responses = Append(@, JsonError(404, "Not found"))]
    /\ UNCHANGED <<rotVars, acq, pbsVars>>
-----------------------------------------------------------------------------
(* The rotators on their own: any configuration, any sequence of calls *)

\* the two configuration strings, MaxPieces pieces between them at most;
\* and, for both variables alike, strings of commas and spaces alone and
\* strings with blank pieces and a space inside a piece
ProcessEnvs ==
    { [BROWSERLESS_API_TOKEN |-> bg[1], GEMINI_API_KEY |-> bg[2],
        CAPTCHA_SOLVER_API_KEY |-> Undefined,
        X_API_KEY |-> Undefined] :
        bg \in UNION { RawConfigs(ij[1]) \X RawConfigs(ij[2]) :
                         ij \in { c \in (0..MaxPieces) \X (0..MaxPieces) :
                                    c[1] + c[2] <= MaxPieces } } }
    \cup
    { [BROWSERLESS_API_TOKEN |-> w, GEMINI_API_KEY |-> w,
        CAPTCHA_SOLVER_API_KEY |-> Undefined,
        X_API_KEY |-> Undefined] :
        w \in { <<" ">>, <<" ", ",", " ">>, <<",", " ", ",">>,
                <<"a", ",", " ", ",", " ", "b", " ", ",">>,
                <<"x", " ", "y", ",", " ", " ">> } }

\* the module-level singletons: new BrowserlessTokenRotator(), new GeminiApiKeyRotator()
RotInit ==
    /\ tokens = initializeTokens(env)
    /\ tokenIndex = 0
    /\ keys = initializeKeys(env)
    /\ keyIndex = 0
    /\ ret = [op |-> "constructor", val |-> Undefined]
    /\ tokenLog = <<>>
    /\ tokenLogStart = 0
    /\ keyLog = <<>>
    /\ keyLogStart = 0

InitRot ==
    /\ processEnv \in ProcessEnvs
    /\ RotInit
    /\ acq = IdleAcq
    /\ PbsInit
    /\ http = IdleHttp

NextRot ==
    /\ \/ getNextToken \/ getCurrentToken \/ getTokenCount \/ hasTokens
       \/ getAllTokens \/ resetTokens \/ setTokenIndex
       \/ getNextKey \/ getCurrentKey \/ getKeyCount \/ hasKeys
       \/ getAllKeys \/ resetKeys \/ setKeyIndex
    /\ UNCHANGED <<acq, pbsVars, http>>

SpecRot == InitRot /\ [][NextRot]_vars


-----------------------------------------------------------------------------
(* The service handling a request: the route and the strategy the route
   dispatches to *)

\* the configurations of the service: every variable unset, or two
\* entries in each pool and a solver key
AcqEnvs ==
    { [BROWSERLESS_API_TOKEN |-> Undefined, GEMINI_API_KEY |-> Undefined,
       CAPTCHA_SOLVER_API_KEY |-> Undefined,
        X_API_KEY |-> Undefined],
      [BROWSERLESS_API_TOKEN |-> <<"a", ",", " ", "b", " ">>,
       GEMINI_API_KEY |-> <<"a", ",", " ", "b", " ">>,
       CAPTCHA_SOLVER_API_KEY |-> <<"k">>,
        X_API_KEY |-> Undefined] }

Init ==
    /\ processEnv \in AcqEnvs
    /\ RotInit
    /\ acq = IdleAcq
    /\ PbsInit
    /\ http = IdleHttp

Next ==
    /\ \/ route_post \/ route_send \/ route_catch
       \/ ss_getContext \/ ss_newPage \/ ss_goto \/ ss_gotoLoad \/ ss_settle
       \/ ss_check \/ ss_status \/ ss_takePage \/ ss_return \/ ss_catch
       \/ vn_getContext \/ vn_setupPage \/ vn_goto \/ vn_gotoLoad \/ vn_captcha
       \/ vn_readCaptcha \/ vn_search \/ vn_check \/ vn_status
       \/ vn_takeScreenshot \/ vn_return \/ vn_catch
       \/ af_getContext \/ af_newPage \/ af_goto \/ af_solve \/ af_check
       \/ af_getAllShipments \/ af_captureScreenshot \/ af_null \/ af_catch
       \/ af_overall \/ af_finally
       \/ vt_getTrackingData \/ vt_solve \/ vt_fetch \/ vt_catch \/ vt_status
       \/ vt_renderContext \/ vt_renderNewPage \/ vt_renderSetContent
       \/ vt_renderScreenshot \/ vt_renderFinally
       \/ be_token \/ be_fetch \/ be_result
    /\ UNCHANGED <<pbsVars, http>>

Spec == Init /\ [][Next]_vars
-----------------------------------------------------------------------------
(* The dispatch alone: one request whose provider label is drawn from the
   base labels in every letter case and from labels that satisfy several
   predicates *)

\* the other letter case of a character
OtherCase(c) ==
    IF \E i \in DOMAIN LowerChars : LowerChars[i] = c
    THEN UpperChars[CHOOSE i \in DOMAIN LowerChars : LowerChars[i] = c]
    ELSE IF \E i \in DOMAIN UpperChars : UpperChars[i] = c
    THEN LowerChars[CHOOSE i \in DOMAIN UpperChars : UpperChars[i] = c]
    ELSE c

\* a label with every letter in upper case, and in lower case
UpperLabel(s) ==
    [i \in 1..Len(s) |->
        IF \E j \in DOMAIN LowerChars : LowerChars[j] = s[i] THEN OtherCase(s[i]) ELSE s[i]]

LowerLabel(s) ==
    [i \in 1..Len(s) |->
        IF \E j \in DOMAIN UpperChars : UpperChars[j] = s[i] THEN OtherCase(s[i]) ELSE s[i]]

\* every way of changing the letter case of a label
RECURSIVE CaseVariants(_)
CaseVariants(s) ==
    IF s = <<>> THEN { <<>> }
    ELSE { <<c>> \o t : c \in { Head(s), OtherCase(Head(s)) },
                        t \in CaseVariants(Tail(s)) }

\* the labels whose letter case is varied
BaseLabels ==
    { <<"V", "i", "e", "t", "t", "e", "l", " ", "P", "o", "s", "t">>, <<"V", "T", "P">>, <<"S", "P", "X">>, <<"G", "H", "N">>, <<"Y", "u", "n", "E", "x", "p", "r", "e", "s", "s">>, <<"J", "&", "T">>, <<"U", "S", "P", "S">>,
      <<"V", "N", " ", "P", "o", "s", "t">>, <<"B", "e", "s", "t", " ", "E", "x", "p", "r", "e", "s", "s">>, <<"D", "H", "L">> }

\* labels that satisfy several predicates, and the second pattern of
\* the predicates that have two
OverlapLabels ==
    { <<"V", "T", "P", " ", "S", "P", "X">>, <<"s", "p", "x", " ", "g", "h", "n">>, <<"G", "H", "N", " ", "Y", "u", "n">>, <<"Y", "u", "n", " ", "U", "S", "P", "S">>, <<"J", "&", "T", " ", "V", "N", " ", "P", "o", "s", "t">>,
      <<"U", "S", "P", "S", " ", "B", "e", "s", "t", " ", "E", "x", "p", "r", "e", "s", "s">>, <<"V", "N", " ", "P", "o", "s", "t", " ", "B", "e", "s", "t", " ", "E", "x", "p", "r", "e", "s", "s">>, <<"B", "e", "s", "t", " ", "E", "x", "p", "r", "e", "s", "s", " ", "V", "T", "P">>,
      <<"S", "P", "X", " ", "I", "n", "t", "e", "r", "n", "a", "t", "i", "o", "n", "a", "l">>, <<"G", "i", "a", "o", " ", "h", "a_grave", "n", "g", " ", "n", "h", "a", "n", "h">>, <<"J", "T", " ", "E", "x", "p", "r", "e", "s", "s">>, <<"V", "i", "e", "t", "n", "a", "m", " ", "P", "o", "s", "t">> }

DispatchLabels ==
    (UNION { CaseVariants(s) : s \in BaseLabels }) \cup OverlapLabels
        \cup { Undefined, <<>> }

\* a request arrives with one of these labels
NextDispatch == route_request(DispatchLabels) /\ UNCHANGED <<pbsVars, http>>

SpecDispatch == Init /\ [][NextDispatch]_vars
-----------------------------------------------------------------------------
(* The browser session manager under two concurrent callers *)

InitBrowser ==
    /\ processEnv = [BROWSERLESS_API_TOKEN |-> Undefined, GEMINI_API_KEY |-> Undefined,
                     CAPTCHA_SOLVER_API_KEY |-> Undefined,
        X_API_KEY |-> Undefined]
    /\ RotInit
    /\ acq = IdleAcq
    /\ PbsInit
    /\ http = IdleHttp

NextBrowser ==
    /\ \/ \E p \in Callers : getContext_call(p)
       \/ \E p \in Callers : getInstance_launch(p)
       \/ \E p \in Callers : getContext_select(p)
       \/ \E p \in Callers : getContext_newContext(p)
       \/ \E p \in Callers : session_newPage(p)
       \/ \E p \in Callers : session_attempt(p)
       \/ \E c \in DOMAIN contexts : context_close(c)
       \/ \E b \in DOMAIN browsers : browser_disconnected(b)
    /\ UNCHANGED <<rotVars, acq, http>>

SpecBrowser == InitBrowser /\ [][NextBrowser]_vars

-----------------------------------------------------------------------------
(* The application handling one request, for each setting of X_API_KEY *)

\* X_API_KEY unset, empty and set
AppEnvs ==
    { [BROWSERLESS_API_TOKEN |-> Undefined, GEMINI_API_KEY |-> Undefined,
       CAPTCHA_SOLVER_API_KEY |-> Undefined, X_API_KEY |-> k] :
         k \in { Undefined, <<>>, <<"s">>, <<"s", "2">> } }

InitApp ==
    /\ processEnv \in AppEnvs
    /\ RotInit
    /\ acq = IdleAcq
    /\ PbsInit
    /\ http = IdleHttp

NextApp ==
    \/ app_request \/ app_health \/ app_static \/ app_apiKeyAuth
    \/ app_apiRoutes \/ app_notFound

SpecApp == InitApp /\ [][NextApp]_vars

-----------------------------------------------------------------------------
(* Requests for the carriers of screenshoter and aftershipScreenshouter *)

\* labels the route sends to screenshoter or to aftershipScreenshouter, each
\* with the patterns of two predicates in it
CarrierLabels ==
    { <<"s", "p", "x", " ", "g", "h", "n">>, <<"g", "h", "n", " ", "s", "p", "x">>,
      <<"G", "H", "N", " ", "Y", "u", "n">>, <<"Y", "u", "n", " ", "S", "P", "X">>,
      <<"Y", "u", "n", " ", "U", "S", "P", "S">>, <<"J", "&", "T", " ", "G", "H", "N">>,
      <<"U", "S", "P", "S", " ", "J", "&", "T">>,
      <<"u", "s", "p", "s", " ", "b", "e", "s", "t", " ", "e", "x", "p", "r", "e", "s", "s">> }

\* the service with every variable of the environment unset
InitCarrier ==
    /\ processEnv = [BROWSERLESS_API_TOKEN |-> Undefined, GEMINI_API_KEY |-> Undefined,
                     CAPTCHA_SOLVER_API_KEY |-> Undefined, X_API_KEY |-> Undefined]
    /\ RotInit
    /\ acq = IdleAcq
    /\ PbsInit
    /\ http = IdleHttp

\* a request arrives with one of these labels, and its strategy runs
NextCarrier ==
    /\ \/ route_request(CarrierLabels) \/ route_send \/ route_catch
       \/ ss_getContext \/ ss_newPage \/ ss_goto \/ ss_gotoLoad \/ ss_settle
       \/ ss_check \/ ss_status \/ ss_takePage \/ ss_return \/ ss_catch
       \/ af_getContext \/ af_newPage \/ af_goto \/ af_solve \/ af_check
       \/ af_getAllShipments \/ af_captureScreenshot \/ af_null \/ af_catch
       \/ af_overall \/ af_finally
    /\ UNCHANGED <<pbsVars, http>>

SpecCarrier == InitCarrier /\ [][NextCarrier]_vars
-----------------------------------------------------------------------------
(* Claims about the rotators, checked under SpecRot *)

\* the pool the configuration "a, b ,c" parses to
PoolABC == << <<"a">>, <<"b">>, <<"c">> >>

\* the value the k-th successive next() returns from pool when the cursor
\* was at start before the first of them
RoundRobinValue(pool, start, k) == pool[((start + k - 1) % Len(pool)) + 1]

\* C1: with a pool of n >= 1 secrets and the cursor starting at 0, the k-th
\* successive next() call returns pool[(k-1) mod n], for the token rotator
\* and the key rotator alike; with the pool [a,b,c] four successive calls
\* return a,b,c,a, the count is 3 and hasAny is true.
C1_RoundRobin ==
    /\ (Len(tokens) >= 1 /\ tokenLogStart = 0) =>
          \A k \in 1..Len(tokenLog) : tokenLog[k] = RoundRobinValue(tokens, 0, k)
    /\ (Len(keys) >= 1 /\ keyLogStart = 0) =>
          \A k \in 1..Len(keyLog) : keyLog[k] = RoundRobinValue(keys, 0, k)
    /\ (tokens = PoolABC /\ tokenLogStart = 0 /\ Len(tokenLog) = 4) =>
          tokenLog = << <<"a">>, <<"b">>, <<"c">>, <<"a">> >>
    /\ (keys = PoolABC /\ keyLogStart = 0 /\ Len(keyLog) = 4) =>
          keyLog = << <<"a">>, <<"b">>, <<"c">>, <<"a">> >>
    /\ (tokens = PoolABC /\ ret.op = "getTokenCount") => ret.val = 3
    /\ (tokens = PoolABC /\ ret.op = "hasTokens") => ret.val = TRUE
    /\ (keys = PoolABC /\ ret.op = "getKeyCount") => ret.val = 3
    /\ (keys = PoolABC /\ ret.op = "hasKeys") => ret.val = TRUE

\* four successive getNextToken calls on the pool [a,b,c], from cursor 0
C1_Witness ==
    /\ tokens = PoolABC
    /\ tokenLogStart = 0
    /\ Len(tokenLog) = 4
    /\ ret.op = "getNextToken"

\* an empty or missing configuration string
NoConfig(raw) == raw = Undefined \/ raw = <<>>

\* C2: a rotator built from an empty or missing configuration has
\* hasAny() false and count() 0, and every next() call, interleaved with
\* current(), reset() and setIndex(), returns the absent value and leaves
\* the cursor where it was.
C2_EmptyPool ==
    /\ NoConfig(processEnv.BROWSERLESS_API_TOKEN) =>
          /\ tokens = <<>>
          /\ tokenIndex = 0
          /\ \A k \in 1..Len(tokenLog) : tokenLog[k] = Undefined
          /\ ret.op = "hasTokens" => ret.val = FALSE
          /\ ret.op = "getTokenCount" => ret.val = 0
          /\ ret.op \in {"getNextToken", "getCurrentToken"} => ret.val = Undefined
    /\ NoConfig(processEnv.GEMINI_API_KEY) =>
          /\ keys = <<>>
          /\ keyIndex = 0
          /\ \A k \in 1..Len(keyLog) : keyLog[k] = Undefined
          /\ ret.op = "hasKeys" => ret.val = FALSE
          /\ ret.op = "getKeyCount" => ret.val = 0
          /\ ret.op \in {"getNextKey", "getCurrentKey"} => ret.val = Undefined

\* three successive getNextToken calls with BROWSERLESS_API_TOKEN unset
C2_Witness ==
    /\ processEnv.BROWSERLESS_API_TOKEN = Undefined
    /\ Len(tokenLog) = 3
    /\ ret.op = "getNextToken"

\* C3 as stated: in every reachable state 0 <= cursor < pool length.
C3_Original ==
    /\ 0 <= tokenIndex /\ tokenIndex < Len(tokens)
    /\ 0 <= keyIndex /\ keyIndex < Len(keys)

\* C3, amended: the cursor is in [0, length) whenever the pool is not empty
\* and is 0 when the pool is empty, whatever next(), current(), reset() and
\* setIndex(i) calls were made; on a pool that is not empty the successive
\* next() calls each move the cursor to (cursor + 1) mod length.
C3_CursorInRange ==
    /\ Len(tokens) > 0 =>
          /\ tokenIndex \in 0..(Len(tokens) - 1)
          /\ tokenIndex = (tokenLogStart + Len(tokenLog)) % Len(tokens)
    /\ Len(tokens) = 0 => tokenIndex = 0
    /\ Len(keys) > 0 =>
          /\ keyIndex \in 0..(Len(keys) - 1)
          /\ keyIndex = (keyLogStart + Len(keyLog)) % Len(keys)
    /\ Len(keys) = 0 => keyIndex = 0

\* the key cursor wrapped to 0 and went on to 1 after setIndex moved it to 2
C3_Witness ==
    /\ Len(keys) = 3
    /\ keyLogStart = 2
    /\ Len(keyLog) = 2
    /\ keyIndex = 1
    /\ ret.op = "getNextKey"


-----------------------------------------------------------------------------
(* Properties of an acquisition *)

\* the strategies that have a retry loop
RetryStrategies ==
    { "screenshoter", "vnPostScreenshoter", "aftershipScreenshouter",
      "viettelPostScreenshoter" }

\* the base delay stated for each retry loop, in ms
StatedBaseDelay(strategy) ==
    CASE strategy = "screenshoter" -> 2000
      [] strategy = "vnPostScreenshoter" -> 2000
      [] strategy = "aftershipScreenshouter" -> 3000
      [] strategy = "viettelPostScreenshoter" -> 3000

\* the stated backoff before attempt k: i x base after failed attempt i
StatedBackoff(k, base) == [ i \in 1..(k - 1) |-> i * base ]

\* the strategy has handed control back to the route
Finished == acq.pc \in {"route_send", "route_catch", "done"}

\* C4: in every retry loop, when attempt k succeeds after k - 1 failed
\* attempts (1 <= k <= 3), exactly k attempts were made, the sleeps are
\* exactly i x baseDelay after failed attempt i for i = 1..k-1, and no
\* attempt and no sleep follows the success.
C4_SuccessAfterFailures ==
    acq.strategy \in RetryStrategies =>
        \A k \in 1..Len(acq.attemptLog) :
            acq.attemptLog[k] = "ok" =>
                /\ k = Len(acq.attemptLog)
                /\ k <= 3
                /\ acq.attempt = k
                /\ \A i \in 1..(k - 1) : acq.attemptLog[i] = "fail"
                /\ acq.sleeps = StatedBackoff(k, StatedBaseDelay(acq.strategy))

\* an Aftership request answered after two failed attempts and a third
\* that succeeded
C4_Witness ==
    /\ acq.pc = "done"
    /\ acq.strategy = "aftershipScreenshouter"
    /\ acq.attemptLog = <<"fail", "fail", "ok">>
    /\ acq.sleeps = <<3000, 6000>>
    /\ acq.result # NoResult

\* C5: in every retry loop, when all three attempts fail, exactly three
\* attempts were made, no sleep follows the last failed attempt, and the
\* error thrown to the caller is the error of the third attempt.
C5_AllAttemptsFail ==
    acq.strategy \in RetryStrategies =>
        /\ Len(acq.attemptLog) <= 3
        /\ acq.attempt <= 4
        /\ acq.attemptLog = <<"fail", "fail", "fail">> =>
              /\ acq.sleeps = StatedBackoff(3, StatedBaseDelay(acq.strategy))
              /\ acq.pc \in {"route_catch", "done"} =>
                    /\ acq.thrown # NoError
                    /\ acq.thrown = acq.lastError
                    /\ acq.thrown.attempt = 3
                    /\ acq.result = NoResult

\* a VN Post request answered after three failed attempts
C5_Witness ==
    /\ acq.pc = "done"
    /\ acq.strategy = "vnPostScreenshoter"
    /\ acq.attemptLog = <<"fail", "fail", "fail">>
    /\ acq.sleeps = <<2000, 4000>>
    /\ acq.thrown.attempt = 3
    /\ Len(acq.responses) = 1 /\ acq.responses[1].code = 500

\* C6: when an acquisition has returned or thrown, on whatever path, every
\* page it opened is closed.
C6_PagesClosed ==
    Finished => \A p \in 1..Len(acq.pages) : ~acq.pages[p].open

\* a request of the generic screenshoter that opened three pages and failed
C6_Witness ==
    /\ acq.pc = "done"
    /\ acq.strategy = "screenshoter"
    /\ Len(acq.pages) = 3
    /\ acq.thrown # NoError

\* C7: in every strategy that uses pages each retry attempt works on a page
\* of its own: no page is used by two different attempts, and at most one
\* page of an acquisition is open at any time.
C7_Original ==
    /\ \A p \in 1..Len(acq.pages) : Cardinality(acq.pages[p].usedIn) <= 1
    /\ Cardinality({ p \in 1..Len(acq.pages) : acq.pages[p].open }) <= 1

\* C8: the status of a result is DELIVERED or UNKNOWN, for every carrier
\* and every upstream response.
C8_Original ==
    acq.result # NoResult => acq.result.status \in {DELIVERED, UNKNOWN}

\* C9: an acquisition returns a result that carries a status and
\* screenshot data, or throws and returns no result; without screenshot
\* data no status is returned; the route sends exactly one response for
\* a request.
C9_Original ==
    /\ acq.result # NoResult =>
          /\ acq.result.status # Undefined
          /\ acq.result.buffer # Undefined
          /\ Len(acq.result.buffer) > 0
          /\ acq.thrown = NoError
    /\ acq.thrown # NoError => acq.result = NoResult
    /\ Len(acq.responses) <= 1
    /\ acq.pc = "done" => Len(acq.responses) = 1

\* the sub-shipments of an Aftership document: the items that have a
\* tracking number, the first item of each number
SubShipments(dom) == UniqueShipments(ShipmentResults(dom))

\* C10: the overall status of an Aftership result is DELIVERED if every
\* sub-shipment is delivered and UNKNOWN otherwise, for every non-empty
\* list of sub-shipments.
C10_AllOrUnknown ==
    (acq.strategy = "aftershipScreenshouter" /\ acq.result # NoResult) =>
        LET subs == SubShipments(acq.dom)
        IN  /\ Len(subs) > 0
            /\ acq.result.status =
                  IF \A i \in 1..Len(subs) : subs[i].status = <<"d", "e", "l", "i", "v", "e", "r", "e", "d">>
                  THEN DELIVERED ELSE UNKNOWN

\* an Aftership result for the sub-statuses [delivered, unknown]
C10_Witness ==
    /\ acq.pc = "done"
    /\ acq.strategy = "aftershipScreenshouter"
    /\ acq.result # NoResult
    /\ Len(SubShipments(acq.dom)) = 2
    /\ SubShipments(acq.dom)[1].status = <<"d", "e", "l", "i", "v", "e", "r", "e", "d">>
    /\ SubShipments(acq.dom)[2].status = <<"u", "n", "k", "n", "o", "w", "n">>
    /\ acq.result.status = UNKNOWN
-----------------------------------------------------------------------------
(* Claims about the dispatch of the route *)

\* the request was dispatched or refused as unsupported
Dispatched == acq.pc # "idle" /\ ~MissingParameter(acq.provider, acq.codes)

\* C11: matching ignores letter case: every letter-case form of "Viettel
\* Post" and of "VTP" takes the Viettel Post branch, "spx" takes the SPX
\* branch, and the branch taken for a label is the branch of the same label
\* written in upper case and of the same label written in lower case
C11_CaseInsensitive ==
    Dispatched =>
        /\ UpperLabel(acq.provider) \in { <<"V", "I", "E", "T", "T", "E", "L", " ", "P", "O", "S", "T">>, <<"V", "T", "P">> }
               => acq.branch = "isViettelPost" /\ acq.strategy = "viettelPostScreenshoter"
        /\ acq.provider = <<"s", "p", "x">>
               => acq.branch = "isSPX" /\ acq.strategy = "screenshoter"
        /\ Branch(UpperLabel(acq.provider)) = acq.branch
        /\ Branch(LowerLabel(acq.provider)) = acq.branch

\* a label in mixed letter case was dispatched to Viettel Post
C11_Witness ==
    /\ Dispatched
    /\ acq.provider = <<"v", "i", "E", "t", "T", "e", "l", " ", "p", "O", "S", "T">>
    /\ acq.branch = "isViettelPost"

\* the order in which the facade is stated to test the predicates, and
\* the strategy stated for each
StatedOrder ==
    << "isViettelPost", "isSPX", "isGiaoHangNhanh", "isYunExpress",
       "isJTExpress || isUSPS", "isVnPost", "isBestExpress" >>

Matches(name, provider) ==
    CASE name = "isViettelPost" -> isViettelPost(provider)
      [] name = "isSPX" -> isSPX(provider)
      [] name = "isGiaoHangNhanh" -> isGiaoHangNhanh(provider)
      [] name = "isYunExpress" -> isYunExpress(provider)
      [] name = "isJTExpress || isUSPS" -> isJTExpress(provider) \/ isUSPS(provider)
      [] name = "isVnPost" -> isVnPost(provider)
      [] name = "isBestExpress" -> isBestExpress(provider)

StatedStrategy(name) ==
    CASE name = "isViettelPost" -> "viettelPostScreenshoter"
      [] name \in { "isSPX", "isGiaoHangNhanh", "isYunExpress" } -> "screenshoter"
      [] name = "isJTExpress || isUSPS" -> "aftershipScreenshouter"
      [] name = "isVnPost" -> "vnPostScreenshoter"
      [] name = "isBestExpress" -> "bestExpressScreenshouter"

MatchCount(provider) ==
    Cardinality({ i \in DOMAIN StatedOrder : Matches(StatedOrder[i], provider) })

\* C12: the branch taken is the first predicate of the stated order that
\* the label satisfies, whatever later predicates it also satisfies, and
\* the strategy of that branch and no other is entered; a label that
\* satisfies none is answered 400 "not supported" and no strategy is entered
C12_FirstMatch ==
    Dispatched =>
        IF MatchCount(acq.provider) = 0
        THEN /\ acq.branch = "else"
             /\ acq.strategy = "none"
             /\ acq.pc = "done"
             /\ acq.responses = << BadRequest("Provider is not supported yet") >>
        ELSE \E i \in DOMAIN StatedOrder :
                /\ Matches(StatedOrder[i], acq.provider)
                /\ \A j \in 1..(i - 1) : ~Matches(StatedOrder[j], acq.provider)
                /\ acq.branch = StatedOrder[i]
                /\ acq.strategy = StatedStrategy(StatedOrder[i])
                /\ acq.pc = EntryPoint(acq.strategy)
                /\ acq.responses = << >>

\* a label that satisfies the Viettel Post and the SPX predicate was
\* dispatched to Viettel Post
C12_Witness ==
    /\ Dispatched
    /\ MatchCount(acq.provider) > 1
    /\ isSPX(acq.provider)
    /\ acq.branch = "isViettelPost"
    /\ acq.strategy = "viettelPostScreenshoter"
-----------------------------------------------------------------------------
(* Claims about the browser session manager *)

\* the acquisitions that hold a context returned by getContext
Holding == { p \in Callers : sessions[p].pc \in {"ss_newPage", "ss_page"} }

\* C13: the pages of two concurrent acquisitions are distinct objects and
\* are never open at the same time
C13_Original ==
    \A p, q \in Callers :
        p # q =>
            /\ sessions[p].page # 0 => sessions[p].page # sessions[q].page
            /\ ~(sessions[p].page # 0 /\ sessions[q].page # 0)

\* C14: two concurrent acquisitions hold the same context object: whenever
\* both hold a context that has not closed, it is one context
C14_Original ==
    \A p, q \in Holding :
        (~contexts[sessions[p].context].closed /\ ~contexts[sessions[q].context].closed)
            => sessions[p].context = sessions[q].context

\* C15: at most one launched browser is connected at any time, so a second
\* launch follows a disconnection
C15_Original ==
    Cardinality({ b \in DOMAIN browsers : browsers[b].connected }) <= 1

\* C18: a launch that fails makes getContext return null; the exception of
\* the launch does not leave getContext
C18_Original ==
    \A p \in Callers : sessions[p].outcome # "launch rejected"

\* the stored contexts
Pooled == { i \in DOMAIN pbs.browserContexts : pbs.browserContexts[i] # 0 }

\* C16: the disconnection of a browser clears the browser reference,
\* empties the pool and resets the index; the manager never keeps a
\* disconnected browser or a context of one, so no call returns such a
\* context; a call that finds no browser launches one, and when calls do
\* not overlap the context it returns is a context of the browser it
\* launched
C16_Invalidated ==
    /\ [][ (\E b \in DOMAIN browsers : browsers[b].connected /\ ~browsers'[b].connected)
             => /\ pbs'.browserInstance = 0
                /\ \A i \in 0..(MAX_CONTEXTS - 1) : ArrayGet(pbs'.browserContexts, i) = 0
                /\ pbs'.contextIndex = 0 ]_vars
    /\ [][ \A p \in Callers :
               (sessions[p].pc = "idle" /\ sessions'[p].pc # "idle" /\ pbs.browserInstance = 0)
                   => sessions'[p].pc = "gi_launch" ]_vars
    /\ [] /\ pbs.browserInstance # 0 => browsers[pbs.browserInstance].connected
          /\ \A i \in Pooled : ContextAlive(pbs.browserContexts[i])
          /\ ~overlapped =>
                 \A p \in Holding :
                     sessions[p].launched =>
                         contexts[sessions[p].context].browser = sessions[p].browser

\* after a disconnection a call launched a second browser and got a
\* context of it
C16_Witness ==
    /\ ~overlapped
    /\ \E p \in Holding :
          /\ sessions[p].launched
          /\ ContextAlive(sessions[p].context)
          /\ \E b \in DOMAIN browsers :
                /\ ~browsers[b].connected
                /\ b < contexts[sessions[p].context].browser

\* C17: when getContext calls do not overlap, every context that has not
\* closed is the one stored in its slot (a context is created only for an
\* empty slot and returned by every selection until it closes), a stored
\* context has not closed (closure clears the slot), a context returned to
\* an acquisition is the stored one unless it closed since, and the pool
\* holds at most MAX_CONTEXTS contexts
C17_SequentialReuse ==
    ~overlapped =>
        /\ \A c \in DOMAIN contexts :
               ~contexts[c].closed => ArrayGet(pbs.browserContexts, contexts[c].slot) = c
        /\ \A i \in Pooled : ~contexts[pbs.browserContexts[i]].closed
        /\ \A p \in Holding :
               \/ contexts[sessions[p].context].closed
               \/ sessions[p].context = ArrayGet(pbs.browserContexts, sessions[p].nextIndex)
        /\ Cardinality(Pooled) <= MAX_CONTEXTS
        /\ DOMAIN pbs.browserContexts \subseteq 0..(MAX_CONTEXTS - 1)

\* three calls in sequence on one browser: the first context closed, the
\* third call created the second context, which is stored and held
C17_Witness ==
    /\ ~overlapped
    /\ sessions[1].runs + sessions[2].runs = 3
    /\ Len(browsers) = 1
    /\ Len(contexts) = 2
    /\ contexts[1].closed
    /\ ArrayGet(pbs.browserContexts, 0) = 2
    /\ \E p \in Holding : sessions[p].context = 2 /\ ~sessions[p].launched
    /\ \E q \in Callers : sessions[q].outcome = "returned"

\* the contexts that close in this step
ClosingContexts ==
    { c \in DOMAIN contexts : ~contexts[c].closed /\ contexts'[c].closed }

\* the browsers that disconnect in this step
DisconnectingBrowsers ==
    { b \in DOMAIN browsers : browsers[b].connected /\ ~browsers'[b].connected }

\* the slot holds a context that stays open through this step
HoldsLiveContext(slot) ==
    /\ ArrayGet(pbs.browserContexts, slot) # 0
    /\ ~contexts'[ArrayGet(pbs.browserContexts, slot)].closed

\* C34 as stated: the close of a context that is not the one stored in its
\* slot leaves a still-open context in that slot, and the disconnection of a
\* browser that is not the memoized one leaves the browser reference and
\* the still-open contexts of the pool in place
C34_Original ==
    /\ [][ \A c \in ClosingContexts :
              (ArrayGet(pbs.browserContexts, contexts[c].slot) # c
                  /\ HoldsLiveContext(contexts[c].slot))
              => ArrayGet(pbs'.browserContexts, contexts[c].slot)
                    = ArrayGet(pbs.browserContexts, contexts[c].slot) ]_vars
    /\ [][ \A b \in DisconnectingBrowsers :
              (pbs.browserInstance # b /\ pbs.browserInstance # 0)
              => /\ pbs'.browserInstance = pbs.browserInstance
                 /\ \A slot \in DOMAIN pbs.browserContexts :
                       HoldsLiveContext(slot)
                       => ArrayGet(pbs'.browserContexts, slot)
                             = ArrayGet(pbs.browserContexts, slot) ]_vars

\* C35: an acquisition calls getContext once, before its first attempt, and
\* that call assigns the context cursor once; every attempt, the retries
\* included, opens its page on the context that call returned, whether or
\* not that context is still open
C35_OneContextPerAcquisition ==
    /\ [] ( \A p \in Callers :
               sessions[p].attempt >= 1 =>
                  /\ sessions[p].calls = 1
                  /\ sessions[p].advances = 1 )
    /\ [][ \A p \in Callers :
              (sessions[p].attempt >= 1 /\ sessions'[p].attempt > sessions[p].attempt)
              => /\ sessions'[p].context = sessions[p].context
                 /\ sessions'[p].calls = sessions[p].calls
                 /\ sessions'[p].advances = sessions[p].advances ]_vars
    /\ [][ \A p \in Callers :
              (sessions[p].page = 0 /\ sessions'[p].page # 0)
              => /\ sessions[p].context # 0
                 /\ sessions'[p].context = sessions[p].context ]_vars

\* a third attempt is about to open its page on the context of the
\* acquisition, which has closed in the meantime
C35_Witness ==
    \E p \in Callers :
        /\ sessions[p].pc = "ss_newPage"
        /\ sessions[p].attempt = 3
        /\ sessions[p].calls = 1
        /\ sessions[p].advances = 1
        /\ contexts[sessions[p].context].closed
-----------------------------------------------------------------------------
(* Claims about what reaches the route without a retry *)

\* the errors of a strategy that got no context
ContextErrors == { ContextError(outcome) : outcome \in ContextOutcomes \ {"context"} }

\* the strategy made three attempts, all failed, with the two backoff
\* sleeps between them
ThreeFailedAttempts ==
    /\ acq.attemptLog = <<"fail", "fail", "fail">>
    /\ Len(acq.sleeps) = 2

\* C19: a strategy with a retry loop that gets no context counts that as a
\* failed attempt and tries again: when the error of a missing context
\* reaches the route, three attempts were made
C19_Original ==
    ( /\ Finished
      /\ acq.strategy \in {"screenshoter", "vnPostScreenshoter", "aftershipScreenshouter"}
      /\ acq.thrown \in ContextErrors )
        => ThreeFailedAttempts

\* C20: for every carrier, the error of a failed step other than getting
\* the context or the credential reaches the route only after three failed
\* attempts with backoff
C20_Original ==
    ( /\ Finished
      /\ acq.strategy # "none"
      /\ acq.thrown # NoError
      /\ acq.thrown \notin ContextErrors
      /\ acq.thrown.msg # "No Browserless API token available" )
        => ThreeFailedAttempts
-----------------------------------------------------------------------------
(* Claims about the status a strategy returns for the text it read *)

\* the strategy returned a result computed from a status text
StatusReturned ==
    /\ acq.result # NoResult
    /\ acq.dom.kind \in {"generic", "vnpost", "viettel", "best"}

\* the status text the strategy read ('' where it is missing)
ExtractedText ==
    LET raw == IF acq.dom.kind = "viettel" THEN acq.dom.TRANGTHAI ELSE acq.dom.text
    IN  IF raw = Undefined THEN <<>> ELSE raw

\* the text contains one of the stated delivered phrases, in any letter case
StatedDelivered(text) ==
    \/ Includes(UpperLabel(text), UpperLabel(<<"D", "e", "l", "i", "v", "e", "r", "e", "d">>))
    \/ Includes(UpperLabel(text), UpperLabel(<<"D_STROKE", "a_tilde", " ", "g", "i", "a", "o", " ", "h", "a_grave", "n", "g">>))
    \/ Includes(UpperLabel(text), UpperLabel(<<"G", "i", "a", "o", " ", "h", "a_grave", "n", "g", " ", "t", "h", "a_grave", "n", "h", " ", "c", "o_circ", "n", "g">>))

\* C21: for every carrier a text that contains "Delivered" or one of the
\* two Vietnamese delivered phrases, in any letter case, gives DELIVERED,
\* and "In transit" and the empty text give UNKNOWN
C21_Original ==
    StatusReturned =>
        /\ StatedDelivered(ExtractedText) => acq.result.status = DELIVERED
        /\ ExtractedText \in { <<"I", "n", " ", "t", "r", "a", "n", "s", "i", "t">>, <<>> } => acq.result.status = UNKNOWN

\* what the matcher of each carrier variant gives for a text
MatcherResults(text) ==
    { ssGetTrackingStatus(text, <<"S", "P", "X">>),
      ssGetTrackingStatus(text, <<"G", "H", "N">>),
      ssGetTrackingStatus(text, <<"Y", "u", "n", "E", "x", "p", "r", "e", "s", "s">>),
      vnGetTrackingStatus(text),
      vtStatus(vtRawStatus([TRANGTHAI |-> text])),
      beStatus([text |-> text]),
      IF IsDeliveredOn(text) THEN DELIVERED ELSE UNKNOWN }

\* C30: the matcher of every carrier variant gives, for the text a
\* strategy read, the status that the strategy returned
C30_Original ==
    StatusReturned => MatcherResults(ExtractedText) = { acq.result.status }
-----------------------------------------------------------------------------
(* Further claims about the rotators, checked under SpecRot *)

\* the calls that only read a rotator
ReadCalls ==
    { "getCurrentToken", "getTokenCount", "hasTokens", "getAllTokens",
      "getCurrentKey", "getKeyCount", "hasKeys", "getAllKeys" }

\* C22: a call of current(), count(), hasAny() or getAll() leaves the pools
\* and the cursors as they were, and a next() that directly follows a
\* current() of the same rotator returns the value that current() returned
C22_PeekOnly ==
    /\ [][ (ret'.op \in ReadCalls /\ ret' # ret)
              => UNCHANGED <<tokens, tokenIndex, keys, keyIndex>> ]_vars
    /\ [][ (ret.op = "getCurrentToken" /\ ret'.op = "getNextToken")
              => ret'.val = ret.val ]_vars
    /\ [][ (ret.op = "getCurrentKey" /\ ret'.op = "getNextKey")
              => ret'.val = ret.val ]_vars

\* getCurrentToken was called with the cursor on the second of several
\* tokens and returned that token
C22_Witness ==
    /\ ret.op = "getCurrentToken"
    /\ Len(tokens) >= 2
    /\ tokenIndex = 1
    /\ ret.val = tokens[2]
    /\ Len(tokenLog) >= 1

\* a string with its spaces and commas removed
Letters(s) == SelectSeq(s, LAMBDA c : c # " " /\ c # ",")

RECURSIVE Concat(_)
\* the strings of a pool one after the other
Concat(pool) == IF pool = <<>> THEN <<>> ELSE Head(pool) \o Concat(Tail(pool))

\* the comma-separated pieces of a string that are not blank
NonBlankPieces(raw) ==
    { i \in DOMAIN Split(raw, ",") : Letters(Split(raw, ",")[i]) # <<>> }

\* what is stated of the pool parsed from a configuration string
StatedPool(raw, pool) ==
    IF NoConfig(raw) THEN pool = <<>>
    ELSE /\ \A i \in DOMAIN pool :
               /\ pool[i] # <<>>
               /\ Head(pool[i]) # " "
               /\ pool[i][Len(pool[i])] # " "
               /\ \A k \in DOMAIN pool[i] : pool[i][k] # ","
               /\ Includes(raw, pool[i])
         /\ Len(pool) = Cardinality(NonBlankPieces(raw))
         /\ Letters(Concat(pool)) = Letters(raw)
         /\ Letters(raw) = <<>> => pool = <<>>

\* C23: the pool of each rotator holds, in the order of the configuration
\* string, its comma-separated pieces without their surrounding spaces,
\* the blank pieces dropped: no secret is empty, starts or ends with a
\* space or holds a comma, and a string of commas and spaces alone gives
\* the empty pool
C23_ParsedPool ==
    /\ StatedPool(processEnv.BROWSERLESS_API_TOKEN, tokens)
    /\ StatedPool(processEnv.GEMINI_API_KEY, keys)
    /\ ret.op = "getAllTokens" => ret.val = tokens
    /\ ret.op = "getAllKeys" => ret.val = keys

\* the string "a, , b ," was parsed to the pool [a, b]
C23_Witness ==
    /\ processEnv.BROWSERLESS_API_TOKEN = <<"a", ",", " ", ",", " ", "b", " ", ",">>
    /\ ret.op = "getAllTokens"
    /\ ret.val = << <<"a">>, <<"b">> >>

\* the values of a sequence
Range(seq) == { seq[i] : i \in DOMAIN seq }

\* in a log of successive next() calls on a pool of n distinct secrets,
\* every n consecutive calls returned each secret of the pool once
EachOncePerRound(pool, log) ==
    (pool # <<>> /\ Cardinality(Range(pool)) = Len(pool)) =>
        \A s \in 1..(Len(log) - Len(pool) + 1) :
            /\ { log[k] : k \in s..(s + Len(pool) - 1) } = Range(pool)
            /\ \A j, k \in s..(s + Len(pool) - 1) : j # k => log[j] # log[k]

\* C24: whoever calls next() and in whatever order the callers run, the
\* calls since the last reset() or setIndex() hand out every secret of a
\* pool of n distinct secrets once in every n consecutive calls, for the
\* token rotator and the key rotator
C24_EachOnce ==
    /\ EachOncePerRound(tokens, tokenLog)
    /\ EachOncePerRound(keys, keyLog)

\* four successive getNextToken calls on the pool [a,b,c] that started
\* at the second token
C24_Witness ==
    /\ tokens = PoolABC
    /\ tokenLogStart = 1
    /\ tokenLog = << <<"b">>, <<"c">>, <<"a">>, <<"b">> >>

\* index is a position of a pool of n entries
InRange(index, n) == index >= 0 /\ index < n

\* C33: reset() puts the cursor on 0 and the next() that follows it returns
\* the first entry of a non-empty pool; setIndex(i) with 0 <= i < length puts
\* the cursor on i and the next() that follows it returns entry i; setIndex(i)
\* with any other i, and any i on an empty pool, leaves the cursor where it
\* was
C33_ResetSetIndex ==
    /\ [] (ret.op = "resetTokens" => tokenIndex = 0)
    /\ [] (ret.op = "resetKeys" => keyIndex = 0)
    /\ [][ (ret.op = "resetTokens" /\ ret'.op = "getNextToken" /\ Len(tokens) > 0)
              => ret'.val = tokens[1] ]_vars
    /\ [][ (ret.op = "resetKeys" /\ ret'.op = "getNextKey" /\ Len(keys) > 0)
              => ret'.val = keys[1] ]_vars
    /\ [][ (ret.op = "setTokenIndex" /\ InRange(ret.arg, Len(tokens))
              /\ ret'.op = "getNextToken") => ret'.val = tokens[ret.arg + 1] ]_vars
    /\ [][ (ret.op = "setKeyIndex" /\ InRange(ret.arg, Len(keys))
              /\ ret'.op = "getNextKey") => ret'.val = keys[ret.arg + 1] ]_vars
    /\ [][ (ret'.op = "setTokenIndex" /\ ~InRange(ret'.arg, Len(tokens)))
              => tokenIndex' = tokenIndex ]_vars
    /\ [][ (ret'.op = "setKeyIndex" /\ ~InRange(ret'.arg, Len(keys)))
              => keyIndex' = keyIndex ]_vars

\* setIndex was called with the length of a pool of three tokens while the
\* cursor was on the last of them, and the cursor is still there
C33_Witness ==
    /\ Len(tokens) = 3
    /\ ret.op = "setTokenIndex"
    /\ ret.arg = 3
    /\ tokenIndex = 2
-----------------------------------------------------------------------------
(* Claims about the credentials of the captcha services *)

\* C25: every call of a captcha service is made with a credential that a
\* rotator's next() returned, and none with an absent or empty credential
C25_Original ==
    \A c \in acq.credentials :
        /\ c.from \in {"getNextGeminiApiKey", "getNextBrowserlessToken"}
        /\ c.key # Undefined
        /\ c.key # <<>>

-----------------------------------------------------------------------------
(* Claims about the validation of the request body, checked under Spec *)

\* a request body with the provider or the codes missing or empty
Incomplete(provider, codes) ==
    \/ provider \in { Undefined, <<>> }
    \/ codes \in { Undefined, <<>> }

\* the request that arrived was answered 400 and nothing else was done for it
RejectedUntouched ==
    /\ acq.pc = "done"
    /\ Len(acq.responses) = 1
    /\ acq.responses[1].code = 400
    /\ acq.branch = "none"
    /\ acq.strategy = "none"
    /\ acq.pages = <<>>
    /\ acq.page = NoPage
    /\ acq.attempt = 0
    /\ acq.credentials = {}
    /\ tokenIndex = 0 /\ tokenLog = <<>>
    /\ keyIndex = 0 /\ keyLog = <<>>
    /\ pbs = PbsInitial /\ browsers = <<>> /\ contexts = <<>>

\* C26: a request whose provider or codes is missing or empty is answered
\* 400 in the step in which it arrives, with no branch of the dispatch
\* taken, no strategy called, no browser launched, no page opened and no
\* rotator cursor moved
C26_RejectedBeforeDispatch ==
    /\ [] ( (acq.pc # "idle" /\ Incomplete(acq.provider, acq.codes))
                => RejectedUntouched )
    /\ [][ (acq.pc = "idle" /\ Incomplete(acq'.provider, acq'.codes))
                => UNCHANGED <<rotVars, pbsVars>> ]_vars

\* a request naming a supported carrier with an empty codes string was
\* answered 400
C26_Witness ==
    /\ acq.provider = <<"S", "P", "X">>
    /\ acq.codes = <<>>
    /\ RejectedUntouched
    /\ acq.responses[1].error = "Provider and codes parameters are required"

-----------------------------------------------------------------------------
(* Claims about the API-key middleware, checked under SpecApp *)

\* X_API_KEY is set to a key
KeyConfigured == processEnv.X_API_KEY \notin { Undefined, <<>> }

\* the request was passed to the router of the API routes
ReachedRoutes == \E i \in DOMAIN http.log : http.log[i] = "apiRoutes"

\* the request was answered with the code alone and never came to the router
AnsweredOnly(code) ==
    /\ Len(http.responses) = 1
    /\ http.responses[1].code = code
    /\ ~ReachedRoutes

\* a finished request under the API prefix
FinishedApiRequest == http.pc = "done" /\ Mounted(apiPrefix, http.path)

\* the router is reached exactly by the requests that need no key or carry it
ReachedIffAuthorized ==
    FinishedApiRequest =>
        (ReachedRoutes <=> (~KeyConfigured \/ http.apiKey = processEnv.X_API_KEY))

\* GET /health is answered 200 and the middleware never ran for it
HealthUnchecked ==
    (http.pc = "done" /\ http.method = "GET" /\ http.path = <<"health">>)
        => /\ Len(http.responses) = 1
           /\ http.responses[1].code = 200
           /\ http.responses[1].status = "OK"
           /\ \A i \in DOMAIN http.log : http.log[i] # "apiKeyAuth"

\* C27 as stated: with a key configured, a request without the header is
\* answered 401 and a request whose header has any value other than the
\* key is answered 403
C27_Original ==
    /\ ReachedIffAuthorized
    /\ HealthUnchecked
    /\ (FinishedApiRequest /\ KeyConfigured /\ http.apiKey = Undefined)
          => AnsweredOnly(401)
    /\ (FinishedApiRequest /\ KeyConfigured
          /\ http.apiKey \notin { Undefined, processEnv.X_API_KEY })
          => AnsweredOnly(403)

\* C27: a request under the API prefix reaches the router if and only if
\* no key is configured or its X-API-Key header equals the key; with a key
\* configured, a request whose header is absent or empty is answered 401
\* and one whose header has another, non-empty value is answered 403,
\* neither reaching the router; GET /health is answered without the check
C27_KeyCheck ==
    /\ ReachedIffAuthorized
    /\ HealthUnchecked
    /\ (FinishedApiRequest /\ KeyConfigured /\ http.apiKey \in { Undefined, <<>> })
          => AnsweredOnly(401)
    /\ (FinishedApiRequest /\ KeyConfigured
          /\ http.apiKey \notin { Undefined, <<>>, processEnv.X_API_KEY })
          => AnsweredOnly(403)

\* with the key 's' configured, a POST of the tracking route with an empty
\* X-API-Key header was answered 401 by the middleware
C27_Witness ==
    /\ processEnv.X_API_KEY = <<"s">>
    /\ http.pc = "done"
    /\ http.method = "POST"
    /\ http.path = <<"api", "v1", "tracking">>
    /\ http.apiKey = <<>>
    /\ http.log = <<"apiKeyAuth">>
    /\ AnsweredOnly(401)

-----------------------------------------------------------------------------
(* Claims about the navigation inside an attempt, checked under Spec *)

\* the retry of navigateToPage is the next statement to run
LoadRetryPending == acq.pc \in { "ss_gotoLoad", "vn_gotoLoad" }

\* the page.goto call at position i failed under a policy other than 'load'
PrimaryFailed(i) ==
    /\ ~acq.navigations[i].ok
    /\ acq.navigations[i].waitUntil # "load"

\* the page.goto call at position i is followed by the retry under 'load'
\* in the same attempt, or that retry is the next statement to run
RetriedUnderLoad(i) ==
    IF i = Len(acq.navigations) THEN LoadRetryPending
    ELSE /\ acq.navigations[i + 1].attempt = acq.navigations[i].attempt
         /\ acq.navigations[i + 1].waitUntil = "load"

\* the failed page.goto call at position i was the last of its attempt, and
\* its error went to the catch clause of the retry loop
EndedAttempt(i) ==
    /\ i = Len(acq.navigations)
    /\ \/ acq.error.attempt = acq.navigations[i].attempt
       \/ acq.lastError.attempt = acq.navigations[i].attempt

\* an attempt calls page.goto twice at most, and there are three attempts
\* at most, which makes 2 x 3 calls for a request
NavigationsBounded ==
    /\ Len(acq.navigations) <= 2
    /\ \A i \in DOMAIN acq.navigations :
          /\ acq.navigations[i].attempt \in 1..3
          /\ acq.navigations[i].attempt = acq.navigations[1].attempt

\* C28 as stated: in every strategy that navigates a page, a navigation that
\* failed under the primary wait policy is followed, in the same attempt, by
\* one navigation under 'load'; a failure of that one ends the attempt with
\* its error handed to the retry loop; an attempt navigates twice at most
\* and a request six times at most
C28_Original ==
    /\ NavigationsBounded
    /\ \A i \in DOMAIN acq.navigations :
          /\ PrimaryFailed(i) => RetriedUnderLoad(i)
          /\ (acq.navigations[i].waitUntil = "load" /\ ~acq.navigations[i].ok)
                => EndedAttempt(i)

-----------------------------------------------------------------------------
(* Claims about the order of the steps of an attempt, checked under Spec *)

\* the place of each step in the stated order; a check with data and a
\* check without data are the same step
StepRank(step) ==
    CASE step = "navigate" -> 1
      [] step = "settle" -> 2
      [] step \in {"data", "no data"} -> 3
      [] step = "status" -> 4
      [] step = "screenshot" -> 5

\* the positions of a step among the steps of the current attempt
StepsNamed(names) == { i \in DOMAIN acq.steps : acq.steps[i] \in names }

\* what the data check of the running strategy gives for the document
\* the page shows
CheckResult ==
    CASE acq.strategy = "screenshoter" -> ssCheckTrackingData(acq.dom)
      [] acq.strategy = "vnPostScreenshoter" -> checkTrackingDataPresent(acq.dom)
      [] acq.strategy = "aftershipScreenshouter" -> afCheckTrackingData(acq.dom)

\* the current attempt ended, or is about to end, as a failure
AttemptFailing ==
    \/ acq.pc \in { "ss_catch", "vn_catch", "af_null", "af_catch" }
    \/ acq.pc \in { "route_catch", "done" } /\ acq.thrown # NoError
    \/ acq.pc = "af_finally" /\ acq.thrown # NoError

\* C29: the steps of an attempt are taken in the order navigate, settle,
\* data check, status, screenshot; a status is extracted and a screenshot
\* captured only after the check of the same attempt found data, the
\* screenshot after the status; and a check that found no data is the last
\* step of its attempt, which fails with neither a status nor a screenshot
C29_StepOrder ==
    /\ \A i, j \in DOMAIN acq.steps :
          i < j => StepRank(acq.steps[i]) <= StepRank(acq.steps[j])
    /\ \A i \in DOMAIN acq.steps :
          /\ acq.steps[i] \in {"data", "no data"} =>
                /\ StepsNamed({"navigate"}) # {}
                /\ StepsNamed({"settle"}) # {}
          /\ acq.steps[i] = "data" => CheckResult
          /\ acq.steps[i] = "status" => acq.steps[i - 1] = "data"
          /\ acq.steps[i] = "screenshot" =>
                /\ acq.steps[i - 1] = "status"
                /\ acq.steps[i - 2] = "data"
          /\ acq.steps[i] = "no data" =>
                /\ i = Len(acq.steps)
                /\ ~CheckResult
                /\ AttemptFailing
                /\ acq.status = Undefined
                /\ acq.buffer = Undefined
    /\ Cardinality(StepsNamed({"settle"})) <= 1
    /\ Cardinality(StepsNamed({"data", "no data"})) <= 1
    /\ acq.strategy \in {"screenshoter", "vnPostScreenshoter", "aftershipScreenshouter"}
          => /\ acq.status # Undefined => StepsNamed({"status"}) # {}
             /\ acq.buffer # Undefined => StepsNamed({"screenshot"}) # {}

\* the second attempt of a request found no data, after a first attempt
\* that failed, and ended without a status and without a screenshot
C29_NoDataWitness ==
    /\ acq.attempt = 2
    /\ acq.steps = <<"navigate", "navigate", "settle", "no data">>
    /\ acq.pc = "ss_catch"
    /\ acq.status = Undefined /\ acq.buffer = Undefined

\* an attempt went through all five steps and the request was answered
\* with the image and the status
C29_Witness ==
    /\ acq.pc = "done"
    /\ acq.strategy = "aftershipScreenshouter"
    /\ acq.attempt = 2
    /\ acq.steps = <<"navigate", "settle", "data", "status", "screenshot">>
    /\ Len(acq.responses) = 1
    /\ acq.responses[1].code = 200

-----------------------------------------------------------------------------
(* Claims about the captcha steps, checked under Spec *)

\* the current attempt, or the whole request, is ending with an error
EndingWithError ==
    \/ acq.pc \in { "vn_catch", "af_catch", "vt_catch" }
    \/ acq.pc \in { "route_catch", "af_finally", "done" } /\ acq.thrown # NoError

\* C31 as stated: an attempt whose captcha solving reported an error or
\* threw ends with an error, and completes none of the steps that follow
\* the solving: the wait, the data check, the status and the screenshot
C31_Original ==
    acq.captcha \in {"error", "threw"} =>
        /\ EndingWithError
        /\ StepsNamed({"settle", "data", "no data", "status", "screenshot"}) = {}

\* C32: a VN Post attempt that finds no captcha element neither fails nor
\* returns at that point: it goes on to the data check with the Gemini
\* rotator untouched and the search form neither filled nor submitted, and
\* stays so for the rest of the attempt; a result it returns is the result
\* of a page that shows no error element, with nothing submitted
C32_AbsentCaptcha ==
    /\ [][ (acq.pc = "vn_captcha" /\ acq'.captcha = "absent") =>
              /\ acq'.pc = "vn_check"
              /\ acq'.error = acq.error
              /\ acq'.result = acq.result
              /\ acq'.credentials = acq.credentials
              /\ ~acq'.submitted
              /\ UNCHANGED rotVars ]_vars
    /\ [][ (acq.captcha = "absent" /\ acq'.captcha = "absent") =>
              /\ ~acq'.submitted
              /\ acq'.credentials = acq.credentials
              /\ UNCHANGED rotVars ]_vars
    /\ [] ( (acq.captcha = "absent" /\ acq.result # NoResult) =>
              /\ checkTrackingDataPresent(acq.dom)
              /\ acq.result.status = vnGetTrackingStatus(acq.dom.text) )

\* a VN Post request was answered with an image after an attempt that found
\* no captcha element, submitted nothing and never called the Gemini rotator
C32_Witness ==
    /\ acq.strategy = "vnPostScreenshoter"
    /\ acq.pc = "done"
    /\ acq.captcha = "absent"
    /\ ~acq.submitted
    /\ Len(keys) > 0 /\ keyLog = <<>>
    /\ Len(acq.responses) = 1
    /\ acq.responses[1].code = 200

-----------------------------------------------------------------------------
(* Claims about the credentials an acquisition consumes, checked under Spec *)

\* entry i of the values a rotator returns when called from cursor 0 on
\* the pool
NthFromStart(pool, i) ==
    IF pool = <<>> THEN Undefined ELSE pool[((i - 1) % Len(pool)) + 1]

\* a step in which a rotator was called
RotatorCalled == tokenLog' # tokenLog \/ keyLog' # keyLog

-----------------------------------------------------------------------------
(* Claims about the shipments of an Aftership page, checked under Spec *)

\* the positions of the items that carry a tracking number no earlier item
\* carries
FirstOccurrences(elements) ==
    { i \in DOMAIN elements :
        /\ elements[i].trackingNumber # Undefined
        /\ \A j \in 1..(i - 1) :
              elements[j].trackingNumber # elements[i].trackingNumber }

RECURSIVE StatusesAt(_, _, _)
\* DELIVERED or UNKNOWN for each item whose position from i on is in the set,
\* in document order
StatusesAt(elements, positions, i) ==
    IF i > Len(elements) THEN <<>>
    ELSE (IF i \in positions
          THEN << IF IsDeliveredOn(elements[i].html) THEN DELIVERED ELSE UNKNOWN >>
          ELSE <<>>)
         \o StatusesAt(elements, positions, i + 1)

\* an Aftership attempt has read the shipments of the page
ShipmentsRead ==
    /\ acq.strategy = "aftershipScreenshouter"
    /\ acq.status # Undefined

\* C37: the shipments of an Aftership page are the first items, in document
\* order, of each tracking number, items without a number left out; the
\* verdict is DELIVERED exactly when each of them is delivered, whatever
\* the later items with the same numbers say
C37_FirstOccurrenceVerdict ==
    /\ ShipmentsRead =>
          acq.status = JoinWith(StatusesAt(acq.dom.elements,
                                           FirstOccurrences(acq.dom.elements), 1), ",")
    /\ (ShipmentsRead /\ acq.result # NoResult) =>
          (acq.result.status = DELIVERED
              <=> \A i \in FirstOccurrences(acq.dom.elements) :
                     IsDeliveredOn(acq.dom.elements[i].html))
    /\ (ShipmentsRead /\ acq.result # NoResult) =>
          acq.result.status \in {DELIVERED, UNKNOWN}

\* a page whose first item of T1 is delivered and whose second item of T1
\* is not was answered DELIVERED
C37_Witness ==
    /\ ShipmentsRead
    /\ acq.pc = "done"
    /\ Len(acq.dom.elements) = 2
    /\ acq.dom.elements[1].trackingNumber = <<"T", "1">>
    /\ acq.dom.elements[2].trackingNumber = <<"T", "1">>
    /\ IsDeliveredOn(acq.dom.elements[1].html)
    /\ ~IsDeliveredOn(acq.dom.elements[2].html)
    /\ acq.result.status = DELIVERED
    /\ acq.responses[1].code = 200

-----------------------------------------------------------------------------
(* Claims about the attempts of getTrackingData, checked under Spec *)

\* the tracking API answered, and its answer carries the error flag
ErrorFlagged ==
    /\ acq.strategy = "viettelPostScreenshoter"
    /\ acq.dom # NoDom
    /\ acq.dom.error

\* the number of entries of a log that are equal to entry
CountOf(log, entry) == Cardinality({ i \in DOMAIN log : log[i] = entry })

\* C38: each attempt of getTrackingData starts without a token, and calls
\* the tracking API only with the token its own solve returned; an answer
\* flagged as an error ends the acquisition with an exception, without
\* another attempt, a browser context or a page
C38_SolveThenCall ==
    /\ [](acq.pc = "vt_solve" => acq.captchaToken = 0)
    /\ [](acq.pc = "vt_fetch" =>
            /\ acq.captcha = "solved"
            /\ acq.captchaToken = acq.attempt)
    /\ [][acq'.pc = "vt_fetch" => acq.pc = "vt_solve" /\ acq'.attempt = acq.attempt]_vars
    /\ [][(acq.pc = "vt_status" /\ acq.dom.error) =>
            /\ acq'.pc = "route_catch"
            /\ acq'.thrown = Err("Viettel Post API returned an error", 0)
            /\ acq'.attempt = acq.attempt
            /\ acq'.attemptLog = acq.attemptLog]_vars
    /\ [](ErrorFlagged =>
            /\ acq.pc \in { "vt_status", "route_catch", "done" }
            /\ acq.pages = <<>>
            /\ acq.page = NoPage
            /\ acq.result = NoResult
            /\ CountOf(acq.attemptLog, "ok") = 1
            /\ acq.attemptLog[Len(acq.attemptLog)] = "ok")
    /\ []((ErrorFlagged /\ acq.pc = "done") =>
            acq.responses =
                << ServerError(Err("Viettel Post API returned an error", 0)) >>)

\* a request whose first attempt failed and whose second attempt got an
\* answer flagged as an error was answered with the error, no page opened
C38_Witness ==
    /\ ErrorFlagged
    /\ acq.pc = "done"
    /\ acq.attemptLog = <<"fail", "ok">>
    /\ acq.attempt = 2
    /\ acq.pages = <<>>
    /\ Len(acq.responses) = 1
    /\ acq.responses[1].code = 500

-----------------------------------------------------------------------------
(* Claims about the carrier of a request, checked under SpecCarrier *)

\* the carrier the site of a tracking URL belongs to
CarrierOfUrl(url) ==
    CASE url.base = "https://spx.vn/track?" -> "SPX"
      [] url.base = "https://donhang.ghn.vn/?order_code=" -> "GiaoHangNhanh"
      [] url.base = "https://www.yuntrack.com/parcelTracking?id=" -> "YunExpress"
      [] url.base = "https://www.aftership.com/track?c=jtexpress-vn&t=" -> "J&T"
      [] url.base = "https://www.aftership.com/track?c=usps-vn&t=" -> "USPS"
      [] OTHER -> "none"

\* the messages of the exceptions the request has met so far
ErrorsMet == { acq.error.msg, acq.lastError.msg, acq.thrown.msg }

\* C39: a request the route sends to screenshoter has the URL of SPX, GHN
\* or YunExpress, and the extractor getTrackingStatus runs for it is the
\* one of that carrier, never the fall-through; a request the route sends
\* to aftershipScreenshouter never meets 'Unsupported provider', and has
\* the J&T URL whenever its label matches J&T
C39_SameCarrier ==
    /\ [](acq.strategy = "screenshoter" =>
            /\ CarrierOfUrl(acq.url) \in {"SPX", "GiaoHangNhanh", "YunExpress"}
            /\ acq.url.codes = acq.codes
            /\ acq.extractor \in {"none", CarrierOfUrl(acq.url)})
    /\ [][(acq.pc = "ss_status" /\ acq'.pc = "ss_takePage") =>
            acq'.extractor = CarrierOfUrl(acq.url)]_vars
    /\ [](acq.strategy = "aftershipScreenshouter" =>
            /\ "Unsupported provider" \notin ErrorsMet
            /\ CarrierOfUrl(acq.url) \in {"none", "J&T", "USPS"}
            /\ (isJTExpress(acq.provider) /\ acq.url # NoUrl)
                  => CarrierOfUrl(acq.url) = "J&T")
    /\ [][(acq.pc = "af_goto" /\ acq'.pc # "af_goto") =>
            /\ acq'.url # NoUrl
            /\ acq'.url.codes = acq.codes]_vars

\* a request labelled "spx ghn" got its image from the SPX site with the
\* status of the SPX extractor
C39_Witness ==
    /\ acq.provider = <<"s", "p", "x", " ", "g", "h", "n">>
    /\ acq.strategy = "screenshoter"
    /\ acq.pc = "done"
    /\ CarrierOfUrl(acq.url) = "SPX"
    /\ acq.extractor = "SPX"
    /\ Len(acq.responses) = 1
    /\ acq.responses[1].code = 200

=============================================================================
